---------------------------- MODULE Spec2Model ----------------------------
(***************************************************************************)
(* A model of the ray tracer rt-new (src/src/features).                    *)
(*                                                                         *)
(* Number representation.  The program computes in f64.  The model uses    *)
(* exact arithmetic on inputs for which f64 is exact as well:              *)
(*   - matrix entries are rationals <<n, d>> (d > 0, lowest terms);        *)
(*   - ray parameters t, points and vectors of the shading model are       *)
(*     integers (see the section "World");                                 *)
(*   - colours and material coefficients are fixed-point integers in       *)
(*     units of 1 / ColorScale.                                            *)
(*                                                                         *)
(* The module holds several specifications over one set of variables:      *)
(*   SpecObject   Object::new / set_transformation / intersect / normal_at *)
(*   SpecWalk     the n1/n2 containment walk of Computation::new           *)
(*   SpecShade    World::color_at and the recursion it starts              *)
(*   SpecRender   Camera::render and its per-pixel tasks                   *)
(*   SpecFn       single calls of the functions that do not recurse        *)
(* Each specification leaves the variables of the others at their initial  *)
(* values.                                                                 *)
(***************************************************************************)
EXTENDS Integers, Sequences, FiniteSets, TLC

VARIABLES
    \* ---- SpecObject: one Object under construction and mutation
    o_state,      \* "none" | "built" | "panicked"
    o_obj,        \* None, or Some(the Object: its transformation and two caches)
    o_req,        \* the transformation last passed to new / set_transformation
    o_isect,      \* the last result of Object::intersect
    o_normal,     \* the last result of Object::normal_at
    \* ---- SpecWalk: one call Computation::new(ray, i, xs), its n1/n2 loop
    w_xs,         \* xs: the intersections passed in
    w_i,          \* i: the target intersection
    w_k,          \* the position in xs of the element i refers to (0: none)
    w_pos,        \* the position of the loop's next element x
    w_pc,         \* "loop" | "done"
    w_stop,       \* the position of the element at which the loop broke (0: none)
    w_st,         \* the loop's locals: containers, n1, n2
    \* ---- SpecShade: one call World::color_at(ray, remaining) and its recursion
    s_world,      \* the World: light and objects
    s_ray,        \* the primary ray
    s_depth,      \* the remaining depth the primary call is given
    s_stack,      \* the active color_at calls, the innermost last
    s_result,     \* None, or Some(the colour the primary call returned)
    s_calls,      \* color_at invocations so far
    s_steps,      \* steps taken so far
    s_hits,       \* hits shaded so far: calls of shade_hit
    s_shadowed,   \* calls of is_shadowed so far
    \* ---- SpecRender: one call Camera::render(world) and its tasks
    r_camera,     \* the Camera
    r_world,      \* the World
    r_state,      \* "called", "rendering", "returned"
    r_image,      \* image.canvas: the colour of cell (x, y) is r_image[y][x]
    r_bar,        \* the position of the progress bar
    r_row,        \* per row y, the place its task has reached
    r_pixel,      \* per pixel (x, y), the place its task has reached
    r_ray,        \* per pixel task, its local ray
    r_writes,     \* per cell, the tasks that have written it, in order
    r_overtaken,  \* some pixel was written before an earlier one of the row-major order
    \* ---- SpecFn: single calls of the functions that do not recurse
    f_xs,         \* the list last sorted by sort_intersections
    f_call        \* the last call: the function, its arguments, its result

objVars == <<o_state, o_obj, o_req, o_isect, o_normal>>

walkVars == <<w_xs, w_i, w_k, w_pos, w_pc, w_stop, w_st>>

shadeVars == <<s_world, s_ray, s_depth, s_stack, s_result, s_calls, s_steps,
              s_hits, s_shadowed>>

renderVars == <<r_camera, r_world, r_state, r_image, r_bar, r_row, r_pixel, r_ray,
                r_writes, r_overtaken>>

fnVars == <<f_xs, f_call>>

vars == <<objVars, walkVars, shadeVars, renderVars, fnVars>>

\* What the actions of one specification leave alone.
notObjVars == <<walkVars, shadeVars, renderVars, fnVars>>
notWalkVars == <<objVars, shadeVars, renderVars, fnVars>>
notShadeVars == <<objVars, walkVars, renderVars, fnVars>>
notRenderVars == <<objVars, walkVars, shadeVars, fnVars>>
notFnVars == <<objVars, walkVars, shadeVars, renderVars>>

(***************************************************************************)
(* Exact rationals: <<n, d>> with d > 0 and gcd(|n|, d) = 1.               *)
(***************************************************************************)
Abs(x) == IF x < 0 THEN -x ELSE x

RECURSIVE GCD(_, _)
GCD(a, b) == IF b = 0 THEN a ELSE GCD(b, a % b)

RNorm(n, d) ==
    LET s == IF d < 0 THEN -1 ELSE 1
        g == GCD(Abs(n), Abs(d))
    IN  <<(s * n) \div g, (s * d) \div g>>

RInt(k) == <<k, 1>>
RZero == RInt(0)
ROne == RInt(1)
RAdd(p, q) == RNorm(p[1] * q[2] + q[1] * p[2], p[2] * q[2])
RNeg(p) == <<-p[1], p[2]>>
RSub(p, q) == RAdd(p, RNeg(q))
RMul(p, q) == RNorm(p[1] * q[1], p[2] * q[2])
RDiv(p, q) == RNorm(p[1] * q[2], p[2] * q[1])
RLess(p, q) == p[1] * q[2] < q[1] * p[2]

\* The largest r with r * r <= n.
RECURSIVE ISqrtFrom(_, _)
ISqrtFrom(n, r) == IF (r + 1) * (r + 1) > n THEN r ELSE ISqrtFrom(n, r + 1)
ISqrt(n) == ISqrtFrom(n, 0)

\* f64::sqrt on a non-negative rational: sqrt(n/d) = sqrt(n*d)/d, exact when
\* n*d is a perfect square (every input of this model), rounded down otherwise.
RSqrt(p) == RNorm(ISqrt(p[1] * p[2]), p[2])

RECURSIVE RSum(_)
RSum(s) == IF s = <<>> THEN RZero ELSE RAdd(Head(s), RSum(Tail(s)))

(***************************************************************************)
(* Matrice (matrice.rs): [size, data], data a sequence of rows.  Rows and  *)
(* columns are numbered from 1 here and from 0 in the source.              *)
(***************************************************************************)
\* A Vec with its elements in place: the sequence s, evaluated once.
Vec(s) == s \o <<>>

MatriceNew(size) ==
    [size |-> size, data |-> Vec([r \in 1..size |-> Vec([c \in 1..size |-> RZero])])]

element_at(m, row, column) == m.data[row][column]

write_element(m, row, column, element) ==
    [m EXCEPT !.data[row][column] = element]

identity ==
    [size |-> 4,
     data |-> Vec([r \in 1..4 |-> Vec([c \in 1..4 |-> IF r = c THEN ROne ELSE RZero])])]

transpose(m) ==
    [size |-> m.size,
     data |-> Vec([ix \in 1..m.size |->
                      Vec([jx \in 1..m.size |-> element_at(m, jx, ix)])])]

\* The rows other than r and the columns other than c, in order.
submatrix(m, r, c) ==
    LET keepR == [i \in 1..(m.size - 1) |-> IF i < r THEN i ELSE i + 1]
        keepC == [j \in 1..(m.size - 1) |-> IF j < c THEN j ELSE j + 1]
    IN  [size |-> m.size - 1,
         data |-> Vec([i \in 1..(m.size - 1) |->
                     Vec([j \in 1..(m.size - 1) |-> m.data[keepR[i]][keepC[j]]])])]

RECURSIVE determinant(_)
\* minor and cofactor are folded into the expansion along the first row:
\* cofactor(0, c) = minor(0, c), negated when 0 + c is odd.
determinant(m) ==
    IF m.size = 2
    THEN RSub(RMul(m.data[1][1], m.data[2][2]), RMul(m.data[1][2], m.data[2][1]))
    ELSE RSum(Vec([c \in 1..m.size |->
                 LET mn == determinant(submatrix(m, 1, c))
                 IN  RMul(m.data[1][c], IF (1 + c) % 2 # 0 THEN RNeg(mn) ELSE mn)]))

minor(m, row, column) == determinant(submatrix(m, row, column))

cofactor(m, row, column) ==
    IF (row + column) % 2 # 0 THEN RNeg(minor(m, row, column))
    ELSE minor(m, row, column)

\* What inverse does on a singular matrix: panic!("Non invertible matrix").
\* No Matrice is returned; the empty matrix stands for that outcome.
Panic == [size |-> 0, data |-> <<>>]

\* A plausible slip: a singular matrix is answered with the identity.
inverse_substituting(m) ==
    LET det == determinant(m)
    IN  IF det = RZero THEN identity
        ELSE [size |-> m.size,
              data |-> Vec([col \in 1..m.size |-> Vec([row \in 1..m.size |->
                          RDiv(cofactor(m, row, col), det)])])]

\* An inverse that writes cofactor(row, col) / det at (row, col).
inverse_untransposed(m) ==
    LET det == determinant(m)
    IN  IF det = RZero THEN Panic
        ELSE [size |-> m.size,
              data |-> Vec([row \in 1..m.size |-> Vec([col \in 1..m.size |->
                          RDiv(cofactor(m, row, col), det)])])]

inverse(m) ==
    LET det == determinant(m)
    IN  IF det = RZero THEN Panic
        ELSE [size |-> m.size,
              data |-> Vec([col \in 1..m.size |-> Vec([row \in 1..m.size |->
                          RDiv(cofactor(m, row, col), det)])])]

\* Mul for Matrice.
mul(lhs, rhs) ==
    [size |-> lhs.size,
     data |-> Vec([ix \in 1..lhs.size |-> Vec([jx \in 1..lhs.size |->
                 RSum(Vec([kx \in 1..lhs.size |->
                         RMul(element_at(lhs, ix, kx), element_at(rhs, kx, jx))]))])])]

\* A product with a Vector that takes the homogeneous coordinate 1.
MulVectorAsPoint(m, v) ==
    LET tuple == <<v[1], v[2], v[3], ROne>>
        out == Vec([ix \in 1..4 |->
                  RSum(Vec([jx \in 1..4 |-> RMul(m.data[ix][jx], tuple[jx])]))])
    IN  <<out[1], out[2], out[3]>>

\* Mul<&Vector> for &Matrice: the homogeneous coordinate is 0.
MulVector(m, v) ==
    LET tuple == <<v[1], v[2], v[3], RZero>>
        out == Vec([ix \in 1..4 |->
                  RSum(Vec([jx \in 1..4 |-> RMul(m.data[ix][jx], tuple[jx])]))])
    IN  <<out[1], out[2], out[3]>>

\* Mul<&Point> for &Matrice: the homogeneous coordinate is 1.
MulPoint(m, p) ==
    LET tuple == <<p[1], p[2], p[3], ROne>>
        out == Vec([ix \in 1..4 |->
                  RSum(Vec([jx \in 1..4 |-> RMul(m.data[ix][jx], tuple[jx])]))])
    IN  <<out[1], out[2], out[3]>>

(***************************************************************************)
(* transformations.rs                                                      *)
(***************************************************************************)
translation(x, y, z) ==
    write_element(write_element(write_element(identity, 1, 4, x), 2, 4, y), 3, 4, z)

scaling(x, y, z) ==
    write_element(write_element(write_element(identity, 1, 1, x), 2, 2, y), 3, 3, z)

(***************************************************************************)
(* Vectors and rays over rationals (tuple.rs, vector.rs, ray.rs)           *)
(***************************************************************************)
Dot(a, b) == RAdd(RAdd(RMul(a[1], b[1]), RMul(a[2], b[2])), RMul(a[3], b[3]))

VSub(a, b) == <<RSub(a[1], b[1]), RSub(a[2], b[2]), RSub(a[3], b[3])>>

RayTransform(ray, m) ==
    [origin |-> MulPoint(m, ray.origin), direction |-> MulVector(m, ray.direction)]

\* Option<T>: None is the empty sequence, Some(x) the sequence of x alone.
None == <<>>
Some(x) == <<x>>

\* An intersect_sphere that returns a tangent point once.
intersect_sphere_once_at_tangent(ray) ==
    LET sphere_to_ray == VSub(ray.origin, <<RZero, RZero, RZero>>)
        a == Dot(ray.direction, ray.direction)
        b == RMul(RInt(2), Dot(ray.direction, sphere_to_ray))
        c == RSub(Dot(sphere_to_ray, sphere_to_ray), ROne)
        discriminant == RSub(RMul(b, b), RMul(RMul(RInt(4), a), c))
    IN  IF RLess(discriminant, RZero) THEN None
        ELSE IF discriminant = RZero THEN Some(<<RDiv(RNeg(b), RMul(RInt(2), a))>>)
        ELSE Some(<<RDiv(RSub(RNeg(b), RSqrt(discriminant)), RMul(RInt(2), a)),
                    RDiv(RAdd(RNeg(b), RSqrt(discriminant)), RMul(RInt(2), a))>>)

intersect_sphere(ray) ==
    LET sphere_to_ray == VSub(ray.origin, <<RZero, RZero, RZero>>)
        a == Dot(ray.direction, ray.direction)
        b == RMul(RInt(2), Dot(ray.direction, sphere_to_ray))
        c == RSub(Dot(sphere_to_ray, sphere_to_ray), ROne)
        discriminant == RSub(RMul(b, b), RMul(RMul(RInt(4), a), c))
    IN  IF RLess(discriminant, RZero) THEN None
        ELSE Some(<<RDiv(RSub(RNeg(b), RSqrt(discriminant)), RMul(RInt(2), a)),
                    RDiv(RAdd(RNeg(b), RSqrt(discriminant)), RMul(RInt(2), a))>>)

normal_at_sphere(object_point) == VSub(object_point, <<RZero, RZero, RZero>>)

\* Vector::normalize divides by the magnitude, in general irrational: the
\* result is kept exactly, as the direction v and its squared magnitude.
Normalize(v) == [v |-> v, mag2 |-> Dot(v, v)]

(***************************************************************************)
(* Object (object.rs), with Shape::Sphere and the default Material.        *)
(***************************************************************************)
ObjectIntersect(obj, ray) ==
    intersect_sphere(RayTransform(ray, obj.transformation_inverse))

ObjectNormalAt(obj, world_point) ==
    LET object_point == MulPoint(obj.transformation_inverse, world_point)
        local_normal == normal_at_sphere(object_point)
    IN  Normalize(MulVector(obj.transformation_inverse_transpose, local_normal))

\* The transforms the program's tests and examples build objects with.
Transforms ==
    { identity,
      scaling(RInt(2), RInt(2), RInt(2)),         \* intersection.rs:109
      scaling(RInt(5), RZero, RZero),             \* intersection.rs:123
      scaling(RInt(2), RInt(3), RInt(4)),         \* ray.rs:39
      translation(RZero, RZero, ROne) }           \* intersection.rs:132

\* The ray of intersection.rs:107 and :121, and a point off the axes.
TestRays ==
    { [origin |-> <<RZero, RZero, RInt(-5)>>, direction |-> <<RZero, RZero, ROne>>] }

TestPoints == { <<ROne, ROne, ROne>> }

\* The Object, once Object::new has returned it.
Obj == o_obj[1]

InitObjectIdle ==
    /\ o_state = "none"
    /\ o_obj = None
    /\ o_req = None
    /\ o_isect = None
    /\ o_normal = None

\* Object::new: a panic in inverse() unwinds before any Object exists.
ObjectNew(transformation) ==
    /\ o_state = "none"
    /\ o_req' = Some(transformation)
    /\ \E inv \in {inverse(transformation)} :
           IF inv = Panic
           THEN /\ o_state' = "panicked"
                /\ UNCHANGED o_obj
           ELSE /\ o_state' = "built"
                /\ o_obj' = Some([transformation |-> transformation,
                                  transformation_inverse |-> inv,
                                  transformation_inverse_transpose |-> transpose(inv)])
    /\ UNCHANGED <<o_isect, o_normal, notObjVars>>

\* Object::set_transformation: the field is assigned before inverse() runs,
\* and transformation_inverse_transpose is not assigned at all.
ObjectSetTransformation(transformation) ==
    /\ o_state = "built"
    /\ o_req' = Some(transformation)
    /\ \E inv \in {inverse(transformation)} :
           IF inv = Panic
           THEN /\ o_state' = "panicked"
                /\ o_obj' = Some([Obj EXCEPT !.transformation = transformation])
           ELSE /\ o_state' = "built"
                /\ o_obj' = Some([Obj EXCEPT !.transformation = transformation,
                                             !.transformation_inverse = inv])
    /\ UNCHANGED <<o_isect, o_normal, notObjVars>>

ObjectIntersectCall(ray) ==
    /\ o_state = "built"
    /\ o_isect' = Some([ray |-> ray, xs |-> ObjectIntersect(Obj, ray)])
    /\ UNCHANGED <<o_state, o_obj, o_req, o_normal, notObjVars>>

ObjectNormalAtCall(world_point) ==
    /\ o_state = "built"
    /\ o_normal' = Some([point |-> world_point,
                       normal |-> ObjectNormalAt(Obj, world_point)])
    /\ UNCHANGED <<o_state, o_obj, o_req, o_isect, notObjVars>>

NextObject ==
    \/ \E t \in Transforms : ObjectNew(t)
    \/ \E t \in Transforms : ObjectSetTransformation(t)
    \/ \E r \in TestRays : ObjectIntersectCall(r)
    \/ \E p \in TestPoints : ObjectNormalAtCall(p)


(***************************************************************************)
(* Claims about Object and Matrice::inverse                                *)
(***************************************************************************)
ZeroScale == scaling(RInt(5), RZero, RZero)

\* C2 (as claimed): whenever an Object exists, after Object::new and after any
\* sequence of set_transformation calls, both caches are current:
\* transformation_inverse = inverse(transformation) and
\* transformation_inverse_transpose = transpose(transformation_inverse).
C2_CachesCurrent ==
    o_state = "built" =>
        /\ Obj.transformation_inverse = inverse(Obj.transformation)
        /\ Obj.transformation_inverse_transpose
               = transpose(Obj.transformation_inverse)

C8_ZeroScaleSphereMisses ==
    o_req = Some(ZeroScale) =>
        /\ o_state = "built"
        /\ ObjectIntersect(Obj,
               [origin |-> <<RZero, RZero, RInt(-5)>>,
                direction |-> <<RZero, RZero, ROne>>]) = None

(***************************************************************************)
(* Objects of a scene.  An Intersection holds a reference &Object: the     *)
(* model's reference is the object's position in the scene's object list,  *)
(* and the object's value is the record at that position.                  *)
(*                                                                         *)
(* Fixed point: refractive indices are in tenths (10 is 1.0, the vacuum),  *)
(* the other material coefficients and colours in units of 1/ColorScale.   *)
(* A transformation of these objects is translation(0, ty, 0) *            *)
(* scaling(s, s, s), kept as the record [ty, s].                           *)
(***************************************************************************)
ColorScale == 100
VACUUM == 10

\* Material::default() (material.rs:69-83), colour WHITE.
DefaultMaterial ==
    [color |-> ColorScale, ambient |-> 10, diffuse |-> 90, specular |-> 90,
     reflective |-> 0, transparency |-> 0, refractive_index |-> VACUUM]

\* glass_sphere() of the tests: transparency 1.0, refractive_index 1.5.
GlassMaterial(refractive_index) ==
    [DefaultMaterial EXCEPT !.transparency = ColorScale,
                            !.refractive_index = refractive_index]

MakeObject(material, shape, ty, s) ==
    [material |-> material, shape |-> shape, transformation |-> [ty |-> ty, s |-> s]]

\* #[derive(PartialEq)] on Object: two objects are equal when their fields
\* are, whether or not they are the same object.  a and b are references
\* into objs.
ObjectEq(objs, a, b) == objs[a] = objs[b]

\* A plausible alternative: std::ptr::eq, equality of the references.
IntersectionEqByIdentity(objs, k, pos, i, x) == k = pos

\* #[derive(PartialEq)] on Intersection: the object (by value) and t.  The
\* positions k and pos of the two operands play no part in it.
IntersectionEq(objs, k, pos, i, x) ==
    ObjectEq(objs, i.object, x.object) /\ i.t = x.t

(***************************************************************************)
(* Computation::new, lines 22-42: n1 and n2                                *)
(***************************************************************************)
Last(s) == s[Len(s)]

RemoveAt(s, index) ==
    [j \in 1..(Len(s) - 1) |-> IF j < index THEN s[j] ELSE s[j + 1]]

\* containers.iter().position(|a| *a == x.object): the first position whose
\* object equals x.object, 0 for None.
PositionOf(objs, containers, object) ==
    LET found == {j \in 1..Len(containers) : ObjectEq(objs, containers[j], object)}
    IN  IF found = {} THEN 0 ELSE CHOOSE j \in found : \A h \in found : j <= h

\* Lines 31-35: remove the object if it is in containers, push it otherwise.
Toggle(objs, containers, object) ==
    LET index == PositionOf(objs, containers, object)
    IN  IF index # 0 THEN RemoveAt(containers, index)
        ELSE Append(containers, object)

\* Lines 22-24.
WalkStart == [containers |-> <<>>, n1 |-> VACUUM, n2 |-> VACUUM, brk |-> FALSE]

\* Lines 26-41: one iteration of the loop, for the element x at position pos;
\* i is the target and k the position of the element it refers to.
WalkIter(objs, st, k, pos, i, x) ==
    LET isTarget == IntersectionEq(objs, k, pos, i, x)
        n1 == IF isTarget /\ st.containers # <<>>
              THEN objs[Last(st.containers)].material.refractive_index
              ELSE st.n1
        containers == Toggle(objs, st.containers, x.object)
        n2 == IF isTarget /\ containers # <<>>
              THEN objs[Last(containers)].material.refractive_index
              ELSE st.n2
    IN  [containers |-> containers, n1 |-> n1, n2 |-> n2, brk |-> isTarget]

\* The whole loop from position pos on: the locals when it ends.
RECURSIVE WalkFrom(_, _, _, _, _, _)
WalkFrom(objs, st, k, pos, i, xs) ==
    IF pos > Len(xs) \/ st.brk THEN st
    ELSE WalkFrom(objs, WalkIter(objs, st, k, pos, i, xs[pos]), k, pos + 1, i, xs)

\* n1 and n2 of Computation::new(ray, i, xs).
N1N2(objs, k, i, xs) ==
    LET st == WalkFrom(objs, WalkStart, k, 1, i, xs)
    IN  [n1 |-> st.n1, n2 |-> st.n2]

(***************************************************************************)
(* SpecWalk: the loop, one iteration per step, on lists over the objects   *)
(* of find_n1_n2_various_intersections and a fourth object equal to the    *)
(* first in every field.                                                   *)
(***************************************************************************)
MaxXs == 4

WalkObjects ==
    << MakeObject(GlassMaterial(15), "Sphere", 0, 8),      \* a
       MakeObject(GlassMaterial(20), "Sphere", -1, 4),     \* b
       MakeObject(GlassMaterial(25), "Sphere", 1, 4),      \* c
       MakeObject(GlassMaterial(15), "Sphere", 0, 8) >>    \* a second a

\* xs of find_n1_n2_various_intersections, t in quarters.
BookXs ==
    << [object |-> 1, t |-> 8], [object |-> 2, t |-> 11], [object |-> 3, t |-> 13],
       [object |-> 2, t |-> 19], [object |-> 3, t |-> 21], [object |-> 1, t |-> 24] >>

\* Lists sorted by t: each t is the one before it, or one more.
SortedLists(len) ==
    { xs \in [1..len -> [object : 1..Len(WalkObjects), t : 1..len]] :
        /\ len > 0 => xs[1].t = 1
        /\ \A j \in 2..len : xs[j].t \in {xs[j - 1].t, xs[j - 1].t + 1} }

WalkInputs == {BookXs} \cup UNION { SortedLists(len) : len \in 0..MaxXs }

\* Targets that are no element of xs, as in Computation::new(&r, &i, &[]).
OutsideTargets == { [object |-> o, t |-> 0] : o \in 1..Len(WalkObjects) }

InitWalkIdle ==
    /\ w_xs = <<>>
    /\ w_i = [object |-> 1, t |-> 0]
    /\ w_k = 0
    /\ w_pos = 1
    /\ w_pc = "done"
    /\ w_stop = 0
    /\ w_st = WalkStart

\* The call, as the tests make it: i is an element of xs, or an
\* Intersection of its own.
InitWalkCall ==
    /\ w_xs \in WalkInputs
    /\ w_k \in 0..Len(w_xs)
    /\ IF w_k = 0 THEN w_i \in OutsideTargets ELSE w_i = w_xs[w_k]
    /\ w_pos = 1
    /\ w_pc = "loop"
    /\ w_stop = 0
    /\ w_st = WalkStart

WalkStep ==
    /\ w_pc = "loop"
    /\ w_pos <= Len(w_xs)
    /\ w_st' = WalkIter(WalkObjects, w_st, w_k, w_pos, w_i, w_xs[w_pos])
    /\ IF w_st'.brk
       THEN w_pc' = "done" /\ w_stop' = w_pos /\ UNCHANGED w_pos
       ELSE w_pos' = w_pos + 1 /\ UNCHANGED <<w_pc, w_stop>>
    /\ UNCHANGED <<w_xs, w_i, w_k, notWalkVars>>

\* The list is exhausted without a break.
WalkEnd ==
    /\ w_pc = "loop"
    /\ w_pos > Len(w_xs)
    /\ w_pc' = "done"
    /\ UNCHANGED <<w_xs, w_i, w_k, w_pos, w_stop, w_st, notWalkVars>>

NextWalk == WalkStep \/ WalkEnd


(***************************************************************************)
(* World.  The shading model runs the program on scenes laid out along the *)
(* y axis: every ray has origin (0, y, 0) and direction (0, +-1, 0), the   *)
(* light is on the axis, and an object is a Plane or a Sphere with the     *)
(* transformation translation(0, ty, 0) * scaling(s, s, s).  Points and    *)
(* vectors are then their y component, an integer; lengths are in units of *)
(* EPSILON.  On such scenes every dot product of unit vectors is +-1 and   *)
(* every quantity the program computes is exact.                           *)
(***************************************************************************)
EPSILON == 1
BLACK == 0
WHITE == ColorScale

\* Color * f64 and Color * Color, in fixed point.
FMul(a, b) == (a * b) \div ColorScale

\* Vector::normalize of a non-zero vector on the axis.
Normalize1(v) == IF v > 0 THEN 1 ELSE -1

Magnitude1(v) == Abs(v)

\* Vector::reflect: self - normal * 2 * self.dot(normal).
Reflect1(v, normal) == v - normal * 2 * (v * normal)

RayNew(origin, direction) == [origin |-> origin, direction |-> direction]

RayPosition(ray, t) == ray.origin + ray.direction * t

\* Object::intersect: the ray is taken to object space by the inverse
\* transformation, origin (o - ty) / s and direction d / s, and handed to
\* the shape.  Plane: t = -origin.y / direction.y (the direction is never
\* within EPSILON of 0 here).  Sphere: the roots (-b -+ sqrt(disc)) / 2a of
\* the quadratic, disc = 4 / s^2, in the order (t1, t2).
ObjectIntersect1(object, ray) ==
    LET along == ray.direction * (object.transformation.ty - ray.origin)
    IN  IF object.shape = "Plane" THEN Some(<<along>>)
        ELSE Some(<<along - object.transformation.s, along + object.transformation.s>>)

\* Object::normal_at: the plane's (0, 1, 0); the sphere's object_point -
\* origin, taken to world space and normalized.
ObjectNormalAt1(object, world_point) ==
    IF object.shape = "Plane" THEN 1
    ELSE Normalize1(world_point - object.transformation.ty)

\* Intersection::intersects: each t tagged with the object.
Intersects(objs, o, ray) ==
    LET ts == ObjectIntersect1(objs[o], ray)
    IN  IF ts = None THEN None
        ELSE Some([j \in 1..Len(ts[1]) |-> [object |-> o, t |-> ts[1][j]]])

\* A variant that inserts an element in front of its equals.
RECURSIVE InsertByTUnstable(_, _)
InsertByTUnstable(sorted, x) ==
    IF sorted = <<>> THEN <<x>>
    ELSE IF Last(sorted).t < x.t THEN Append(sorted, x)
    ELSE Append(InsertByTUnstable(SubSeq(sorted, 1, Len(sorted) - 1), x), Last(sorted))

\* xs.sort_by(|a, b| a.t.total_cmp(&b.t)): a stable sort, by insertion of
\* each element behind the elements that are not greater.
RECURSIVE InsertByT(_, _)
InsertByT(sorted, x) ==
    IF sorted = <<>> THEN <<x>>
    ELSE IF Last(sorted).t <= x.t THEN Append(sorted, x)
    ELSE Append(InsertByT(SubSeq(sorted, 1, Len(sorted) - 1), x), Last(sorted))

RECURSIVE sort_intersections(_)
sort_intersections(xs) ==
    IF xs = <<>> THEN <<>>
    ELSE InsertByT(sort_intersections(SubSeq(xs, 1, Len(xs) - 1)), Last(xs))

\* World::intersect, lines 34-40: the objects' intersections, appended in
\* the order of the objects.
RECURSIVE Collect(_, _, _)
Collect(objs, n, ray) ==
    IF n = 0 THEN <<>>
    ELSE LET ixs == Intersects(objs, n, ray)
         IN  Collect(objs, n - 1, ray) \o (IF ixs = None THEN <<>> ELSE ixs[1])

WorldIntersect(world, ray) ==
    LET result == Collect(world.objects, Len(world.objects), ray)
    IN  IF result # <<>> THEN Some(sort_intersections(result)) ELSE None

\* Variants of hit: the first element whatever its t; the first with t >= 0.
HitIndexAny(xs) == IF xs = <<>> THEN 0 ELSE 1

HitIndexNonNegative(xs) ==
    LET pos == {j \in 1..Len(xs) : xs[j].t >= 0}
    IN  IF pos = {} THEN 0 ELSE CHOOSE j \in pos : \A h \in pos : j <= h

\* hit: xs.into_iter().find(|i| i.t > 0.0), as the position of that element
\* (0 for None).
HitIndex(xs) ==
    LET pos == {j \in 1..Len(xs) : xs[j].t > 0}
    IN  IF pos = {} THEN 0 ELSE CHOOSE j \in pos : \A h \in pos : j <= h

hit(xs) == IF HitIndex(xs) = 0 THEN None ELSE Some(xs[HitIndex(xs)])
\* A Computation::new that keeps the object's normal as it is.
ComputationNewUnflipped(objs, ray, k, i, xs) ==
    LET n == N1N2(objs, k, i, xs)
        point == RayPosition(ray, i.t)
        eyev == -ray.direction
        normalv == ObjectNormalAt1(objs[i.object], point)
    IN  [t |-> i.t, object |-> i.object, point |-> point,
         over_point |-> point + normalv * EPSILON,
         under_point |-> point - normalv * EPSILON,
         eyev |-> eyev, normalv |-> normalv, inside |-> FALSE,
         reflectv |-> Reflect1(ray.direction, normalv),
         n1 |-> n.n1, n2 |-> n.n2]

\* Computation::new(ray, i, xs); k is the position in xs of the element i
\* refers to, 0 when i is no element of xs.
ComputationNew(objs, ray, k, i, xs) ==
    LET n == N1N2(objs, k, i, xs)
        point == RayPosition(ray, i.t)
        eyev == -ray.direction
        normal == ObjectNormalAt1(objs[i.object], point)
        inside == normal * eyev < 0
        normalv == IF inside THEN -normal ELSE normal
    IN  [t |-> i.t, object |-> i.object, point |-> point,
         over_point |-> point + normalv * EPSILON,
         under_point |-> point - normalv * EPSILON,
         eyev |-> eyev, normalv |-> normalv, inside |-> inside,
         reflectv |-> Reflect1(ray.direction, normalv),
         n1 |-> n.n1, n2 |-> n.n2]

\* f64::powi(5) in fixed point.
Pow5(x) == FMul(FMul(FMul(FMul(x, x), x), x), x)

\* A shlick that keeps the incidence cosine when n1 > n2.
ShlickIncidenceCosine(n1, n2, cos0) ==
    LET sin2_t == (n1 * n1 * (ColorScale - FMul(cos0, cos0))) \div (n2 * n2)
        r0 == ((n1 - n2) * (n1 - n2) * ColorScale) \div ((n1 + n2) * (n1 + n2))
    IN  IF n1 > n2 /\ sin2_t > ColorScale THEN ColorScale
        ELSE r0 + FMul(ColorScale - r0, Pow5(ColorScale - cos0))

\* Computation::shlick; cos is eyev . normalv in fixed point.
Shlick(n1, n2, cos0) ==
    LET sin2_t == (n1 * n1 * (ColorScale - FMul(cos0, cos0))) \div (n2 * n2)
        cos == IF n1 > n2 THEN ISqrt((ColorScale - sin2_t) * ColorScale) ELSE cos0
        r0 == ((n1 - n2) * (n1 - n2) * ColorScale) \div ((n1 + n2) * (n1 + n2))
    IN  IF n1 > n2 /\ sin2_t > ColorScale THEN ColorScale
        ELSE r0 + FMul(ColorScale - r0, Pow5(ColorScale - cos))

\* A variant in which a hit at the distance of the light shadows as well.
IsShadowedInclusive(world, point) ==
    LET v == world.light.position - point
        distance == Magnitude1(v)
        direction == Normalize1(v)
        r == RayNew(point, direction)
        ixs == WorldIntersect(world, r)
    IN  /\ ixs # None
        /\ hit(ixs[1]) # None
        /\ hit(ixs[1])[1].t <= distance

\* World::is_shadowed.
IsShadowed(world, point) ==
    LET v == world.light.position - point
        distance == Magnitude1(v)
        direction == Normalize1(v)
        r == RayNew(point, direction)
        ixs == WorldIntersect(world, r)
    IN  /\ ixs # None
        /\ hit(ixs[1]) # None
        /\ hit(ixs[1])[1].t < distance

\* A lighting without the early return on in_shadow.
LightingIgnoringShadow(material, light, point, eyev, normalv, in_shadow) ==
    LET effective_color == FMul(material.color, light.intensity)
        ambient == FMul(effective_color, material.ambient)
        lightv == Normalize1(light.position - point)
        light_dot_normal == lightv * normalv
        reflectv == Reflect1(-lightv, normalv)
        reflectv_dot_eye == reflectv * eyev
        diffuse == IF light_dot_normal < 0 THEN BLACK
                   ELSE FMul(effective_color, material.diffuse) * light_dot_normal
        specular == IF light_dot_normal < 0 \/ reflectv_dot_eye <= 0 THEN BLACK
                    ELSE FMul(light.intensity, material.specular)
    IN  ambient + diffuse + specular

\* Material::lighting, without a pattern.  shininess only enters as the
\* exponent of reflectv_dot_eye, which is 1 whenever it is positive.
Lighting(material, light, point, eyev, normalv, in_shadow) ==
    LET effective_color == FMul(material.color, light.intensity)
        ambient == FMul(effective_color, material.ambient)
        lightv == Normalize1(light.position - point)
        light_dot_normal == lightv * normalv
        reflectv == Reflect1(-lightv, normalv)
        reflectv_dot_eye == reflectv * eyev
        diffuse == IF light_dot_normal < 0 THEN BLACK
                   ELSE FMul(effective_color, material.diffuse) * light_dot_normal
        specular == IF light_dot_normal < 0 \/ reflectv_dot_eye <= 0 THEN BLACK
                    ELSE FMul(light.intensity, material.specular)
    IN  IF in_shadow THEN ambient ELSE ambient + diffuse + specular

(***************************************************************************)
(* Claims about the containment walk                                       *)
(***************************************************************************)
\* The walk with objects told apart by reference: the references in the
\* first n elements of xs that occur an odd number of times, by last entry.
ToggleByReference(containers, object) ==
    IF \E j \in 1..Len(containers) : containers[j] = object
    THEN SelectSeq(containers, LAMBDA a : a # object)
    ELSE Append(containers, object)

RECURSIVE ContainersByReference(_, _)
ContainersByReference(xs, n) ==
    IF n = 0 THEN <<>>
    ELSE ToggleByReference(ContainersByReference(xs, n - 1), xs[n].object)

TopIndex(objs, containers) ==
    IF containers = <<>> THEN VACUUM
    ELSE objs[Last(containers)].material.refractive_index

\* The elements of xs the loop has processed.
Processed == IF w_pc = "done" /\ w_stop = 0 THEN Len(w_xs)
             ELSE IF w_pc = "done" THEN w_stop ELSE w_pos - 1

\* C3 (as claimed): identity in the walk is by reference.  With the target an
\* element xs[k] of the list, the container list after any number of
\* processed elements is the one obtained by toggling references (a second
\* object with equal fields is pushed, it does not remove the first), and
\* the walk stops at position k, not earlier.
C3_IdentityByReference ==
    w_k # 0 =>
        /\ w_st.containers = ContainersByReference(w_xs, Processed)
        /\ w_pc = "done" => w_stop = w_k

\* C4 (as claimed): for xs sorted by t and the target xs[k], n1 is the
\* refractive index of the last object of the list built by toggling the
\* objects of xs[0..k) (1.0 if empty) and n2 the same after also toggling
\* xs[k].object.
C4_N1N2ByToggling ==
    (w_k # 0 /\ w_pc = "done") =>
        /\ w_st.n1 = TopIndex(WalkObjects, ContainersByReference(w_xs, w_k - 1))
        /\ w_st.n2 = TopIndex(WalkObjects, ContainersByReference(w_xs, w_k))

\* The example of C4 (find_n1_n2_various_intersections), which the code
\* meets: no two of its objects are equal in value, nor two of its t.
BookN12 == << <<10, 15>>, <<15, 20>>, <<20, 25>>, <<25, 25>>, <<25, 15>>, <<15, 10>> >>

C4_BookExample ==
    (w_xs = BookXs /\ w_k # 0 /\ w_pc = "done") =>
        <<w_st.n1, w_st.n2>> = BookN12[w_k]

\* C27 (as claimed): at every step of the walk the container list holds
\* each object at most once, and after a prefix of the list has been
\* processed it holds exactly the objects that occur an odd number of times
\* in that prefix, in the order of their most recent insertion.
C27_ContainersOddOccurrences ==
    /\ \A a, b \in 1..Len(w_st.containers) :
           w_st.containers[a] = w_st.containers[b] => a = b
    /\ w_st.containers = ContainersByReference(w_xs, Processed)

\* The part of C27 that the code meets: with objects told apart by the
\* values of their fields, the list holds no two equal objects.
C27_NoTwoEqualInValue ==
    \A a, b \in 1..Len(w_st.containers) :
        ObjectEq(WalkObjects, w_st.containers[a], w_st.containers[b]) => a = b

(***************************************************************************)
(* SpecShade: one call World::color_at(ray, remaining) with everything it  *)
(* calls.  The recursion color_at -> shade_hit -> reflected_color /        *)
(* refracted_color -> color_at is a stack of frames, one per active        *)
(* color_at call; a frame holds the call's arguments, the locals of its    *)
(* shade_hit and the place it has reached.                                 *)
(***************************************************************************)
NewFrame(ray, remaining) ==
    [ray |-> ray, remaining |-> remaining, pc |-> "color_at", comps |-> <<>>,
     surface |-> BLACK, reflected |-> BLACK, refracted |-> BLACK,
     reflect_cast |-> FALSE, refract_cast |-> FALSE]

Top == s_stack[Len(s_stack)]

MaterialOf(comps) == s_world.objects[comps.object].material

\* A variant that passes the depth on unchanged.
ChildRemainingSame(remaining) == remaining

\* The remaining depth a secondary ray is traced with, lines 96 and 112:
\* remaining - 1.
ChildRemaining(remaining) == remaining - 1

\* A variant without the early return on remaining == 0.
ReflectedColorIsBlackMatteOnly(material, remaining) ==
    material.reflective = 0

\* reflected_color, lines 89-94: the two early returns of BLACK.
ReflectedColorIsBlack(material, remaining) ==
    remaining = 0 \/ material.reflective = 0

\* A variant without the early return on transparency == 0.0.
RefractedColorIsBlackAtZeroOnly(material, remaining) ==
    remaining = 0

\* refracted_color, lines 100-102: the early return of BLACK.
RefractedColorIsBlack(material, remaining) ==
    material.transparency = 0 \/ remaining = 0

\* refracted_color, lines 103-105: n_ratio, cos_i and sin2_t, in fixed point.
NRatio(comps) == (comps.n1 * ColorScale) \div comps.n2

CosI(comps) == comps.eyev * comps.normalv * ColorScale

\* refracted_color, lines 103-105, on the values it reads from comps:
\* sin2_t = n_ratio.powi(2) * (1.0 - cos_i.powi(2)).
Sin2TOf(n1, n2, cos_i) ==
    LET n_ratio == (n1 * ColorScale) \div n2
    IN  FMul(FMul(n_ratio, n_ratio), ColorScale - FMul(cos_i, cos_i))

Sin2T(comps) == Sin2TOf(comps.n1, comps.n2, CosI(comps))

\* A refracted_color whose lines 106-108 are missing.
TotalInternalReflectionNever(n1, n2, cos_i) == FALSE

\* refracted_color, lines 106-108: if sin2_t > 1.0 { return BLACK; }
TotalInternalReflection(n1, n2, cos_i) == Sin2TOf(n1, n2, cos_i) > ColorScale

\* refracted_color, lines 109-111.
RefractRay(comps) ==
    LET cos_t == ISqrt((ColorScale - Sin2T(comps)) * ColorScale)
        direction == comps.normalv * (FMul(NRatio(comps), CosI(comps)) - cos_t)
                     - comps.eyev * NRatio(comps)
    IN  RayNew(comps.under_point, direction \div ColorScale)

\* reflected_color, line 95.
ReflectRay(comps) == RayNew(comps.over_point, comps.reflectv)

\* A variant that blends as soon as one of the two coefficients is positive.
ShadeHitSumEither(material, reflectance, surface, reflected, refracted) ==
    IF material.reflective > 0 \/ material.transparency > 0
    THEN surface + FMul(reflected, reflectance)
                 + FMul(refracted, ColorScale - reflectance)
    ELSE surface + reflected + refracted

\* shade_hit, lines 56-62: the sum it returns, given what lighting,
\* reflected_color and refracted_color returned; reflectance is
\* comps.shlick(), evaluated in the first branch only.
ShadeHitSum(material, reflectance, surface, reflected, refracted) ==
    IF material.reflective > 0 /\ material.transparency > 0
    THEN surface + FMul(reflected, reflectance)
                 + FMul(refracted, ColorScale - reflectance)
    ELSE surface + reflected + refracted

ShadeHitColor(f) ==
    ShadeHitSum(MaterialOf(f.comps), Shlick(f.comps.n1, f.comps.n2, CosI(f.comps)),
                f.surface, f.reflected, f.refracted)

\* The innermost call returns color: to the reflected_color or
\* refracted_color that made it, which scales it by the coefficient, or,
\* from the primary call, to the caller of color_at.
Return(color) ==
    IF Len(s_stack) = 1
    THEN /\ s_stack' = <<>>
         /\ s_result' = Some(color)
    ELSE LET j == Len(s_stack) - 1
             caller == s_stack[j]
             material == MaterialOf(caller.comps)
             resumed == IF caller.pc = "in_reflected_color"
                        THEN [caller EXCEPT !.reflected = FMul(color, material.reflective),
                                            !.pc = "refracted_color"]
                        ELSE [caller EXCEPT !.refracted = FMul(color, material.transparency),
                                            !.pc = "shade_hit_return"]
         IN  /\ s_stack' = [SubSeq(s_stack, 1, j) EXCEPT ![j] = resumed]
             /\ s_result' = s_result

\* The innermost call makes a nested call color_at(ray, remaining).
Call(waiting, ray, remaining) ==
    /\ s_stack' = Append([s_stack EXCEPT ![Len(s_stack)] = waiting],
                         NewFrame(ray, remaining))
    /\ s_calls' = s_calls + 1
    /\ s_result' = s_result

\* A shade_hit that asks is_shadowed for under_point and for over_point.
ShadowQueriesBothSides(comps) == <<comps.under_point, comps.over_point>>

\* shade_hit, line 54: the points it asks is_shadowed about, in order.
ShadowQueries(comps) == <<comps.over_point>>

\* color_at up to the first statement of shade_hit: BLACK when there is no
\* hit, otherwise the Computation, built with the empty list the code
\* passes, and the surface colour.
ColorAt ==
    /\ s_stack # <<>>
    /\ Top.pc = "color_at"
    /\ LET ixs == WorldIntersect(s_world, Top.ray)
       IN  IF ixs = None \/ hit(ixs[1]) = None
           THEN Return(BLACK) /\ UNCHANGED <<s_hits, s_shadowed>>
           ELSE LET comps == ComputationNew(s_world.objects, Top.ray, 0,
                                            hit(ixs[1])[1], <<>>)
                    queries == ShadowQueries(comps)
                    surface == Lighting(MaterialOf(comps), s_world.light,
                                        comps.point, comps.eyev, comps.normalv,
                                        IsShadowed(s_world, queries[Len(queries)]))
                IN  /\ s_stack' = [s_stack EXCEPT ![Len(s_stack)] =
                                      [Top EXCEPT !.comps = comps,
                                                  !.surface = surface,
                                                  !.pc = "reflected_color"]]
                    /\ s_result' = s_result
                    /\ s_hits' = s_hits + 1
                    /\ s_shadowed' = s_shadowed + Len(queries)
    /\ s_steps' = s_steps + 1
    /\ UNCHANGED <<s_world, s_ray, s_depth, s_calls, notShadeVars>>

ReflectedColor ==
    /\ s_stack # <<>>
    /\ Top.pc = "reflected_color"
    /\ IF ReflectedColorIsBlack(MaterialOf(Top.comps), Top.remaining)
       THEN /\ s_stack' = [s_stack EXCEPT ![Len(s_stack)] =
                              [Top EXCEPT !.reflected = BLACK,
                                          !.pc = "refracted_color"]]
            /\ UNCHANGED <<s_calls, s_result>>
       ELSE Call([Top EXCEPT !.pc = "in_reflected_color", !.reflect_cast = TRUE],
                 ReflectRay(Top.comps), ChildRemaining(Top.remaining))
    /\ s_steps' = s_steps + 1
    /\ UNCHANGED <<s_world, s_ray, s_depth, s_hits, s_shadowed, notShadeVars>>

RefractedColor ==
    /\ s_stack # <<>>
    /\ Top.pc = "refracted_color"
    /\ IF \/ RefractedColorIsBlack(MaterialOf(Top.comps), Top.remaining)
          \/ TotalInternalReflection(Top.comps.n1, Top.comps.n2, CosI(Top.comps))
       THEN /\ s_stack' = [s_stack EXCEPT ![Len(s_stack)] =
                              [Top EXCEPT !.refracted = BLACK,
                                          !.pc = "shade_hit_return"]]
            /\ UNCHANGED <<s_calls, s_result>>
       ELSE Call([Top EXCEPT !.pc = "in_refracted_color", !.refract_cast = TRUE],
                 RefractRay(Top.comps), ChildRemaining(Top.remaining))
    /\ s_steps' = s_steps + 1
    /\ UNCHANGED <<s_world, s_ray, s_depth, s_hits, s_shadowed, notShadeVars>>

ShadeHitReturn ==
    /\ s_stack # <<>>
    /\ Top.pc = "shade_hit_return"
    /\ Return(ShadeHitColor(Top))
    /\ s_steps' = s_steps + 1
    /\ UNCHANGED <<s_world, s_ray, s_depth, s_calls, s_hits, s_shadowed, notShadeVars>>

NextShade == ColorAt \/ ReflectedColor \/ RefractedColor \/ ShadeHitReturn

\* The scenes: a lower and an upper plane and a sphere of radius 10 between
\* them, each of one of four materials, the light between the lower plane
\* and the sphere; and the world without objects.
MaxDepth == 3

Matte == DefaultMaterial
Mirror == [DefaultMaterial EXCEPT !.reflective = 50]
Glass == GlassMaterial(15)
Glassy == [DefaultMaterial EXCEPT !.reflective = 50, !.transparency = 50,
                                  !.refractive_index = 15]
Materials == {Matte, Mirror, Glass, Glassy}

Worlds ==
    {[light |-> [position |-> -15, intensity |-> WHITE],
      objects |-> <<MakeObject(lower, "Plane", -20, 1),
                    MakeObject(upper, "Plane", 20, 1),
                    MakeObject(middle, "Sphere", 0, 10)>>] :
        lower \in Materials, upper \in Materials, middle \in Materials}
    \cup {[light |-> [position |-> -15, intensity |-> WHITE], objects |-> <<>>]}

\* Primary rays: from the sphere's centre upward; from below the sphere
\* (outside every object) upward; and from the upper plane upward, which
\* has the plane at t = 0 and everything else behind it.
PrimaryRays == {RayNew(0, 1), RayNew(-14, 1), RayNew(20, 1)}

InitShadeIdle ==
    /\ s_world = <<>>
    /\ s_ray = <<>>
    /\ s_depth = 0
    /\ s_stack = <<>>
    /\ s_result = None
    /\ s_calls = 0
    /\ s_steps = 0
    /\ s_hits = 0
    /\ s_shadowed = 0

InitShadeCall ==
    /\ s_world \in Worlds
    /\ s_ray \in PrimaryRays
    /\ s_depth \in 0..MaxDepth
    /\ s_stack = <<NewFrame(s_ray, s_depth)>>
    /\ s_result = None
    /\ s_calls = 1
    /\ s_steps = 0
    /\ s_hits = 0
    /\ s_shadowed = 0

(***************************************************************************)
(* Claims about color_at and its recursion                                 *)
(***************************************************************************)
Frames == {s_stack[j] : j \in 1..Len(s_stack)}

\* The frames whose Computation has been built.
Shaded == {f \in Frames : f.pc # "color_at"}

\* The refractive indices the walk gives for the hit of ray over the full
\* sorted list of the world's intersections with it.
FullListN1N2(ray) ==
    LET xs == WorldIntersect(s_world, ray)[1]
    IN  N1N2(s_world.objects, HitIndex(xs), xs[HitIndex(xs)], xs)

\* C1: the Computation color_at builds for its hit has the n1 and n2 that
\* the containment walk over the full sorted intersection list of the ray
\* gives; a ray that starts outside every object and first hits a
\* transparent object of index r gets n1 = 1.0 and n2 = r.
C1_ColorAtUsesFullList ==
    \A f \in Shaded :
        /\ f.comps.n1 = FullListN1N2(f.ray).n1
        /\ f.comps.n2 = FullListN1N2(f.ray).n2

RECURSIVE Pow2(_)
Pow2(n) == IF n = 0 THEN 1 ELSE 2 * Pow2(n - 1)

\* C5: a call color_at(ray, d) terminates: the j-th nested call runs with
\* remaining d - (j - 1), never below zero, so at most d + 1 calls are
\* nested; every call takes at most four steps and at most 2^(d+1) - 1 calls
\* are made, and until it has returned the innermost call can take a step.
C5_ColorAtTerminates ==
    /\ Len(s_stack) <= s_depth + 1
    /\ \A j \in 1..Len(s_stack) :
           /\ s_stack[j].remaining >= 0
           /\ s_stack[j].remaining = s_depth - (j - 1)
    /\ s_calls <= Pow2(s_depth + 1) - 1
    /\ s_steps <= 4 * s_calls
    /\ (s_result = None) = (s_stack # <<>>)
    /\ s_stack # <<>> =>
           Top.pc \in {"color_at", "reflected_color", "refracted_color", "shade_hit_return"}

\* A call with depth MaxDepth whose reflected_color has returned and whose
\* refracted_color has led to MaxDepth + 1 nested calls, the innermost with
\* remaining 0 and about to return.
C5_Witness ==
    /\ s_depth = MaxDepth
    /\ s_depth > 0
    /\ Len(s_stack) = s_depth + 1
    /\ s_stack[1].reflect_cast
    /\ s_stack[1].pc = "in_refracted_color"
    /\ Top.remaining = 0
    /\ Top.pc = "shade_hit_return"

\* C6: with remaining = 0, reflected_color and refracted_color both return
\* exactly black and cast no secondary ray, whatever the material's
\* reflective, transparency and refractive_index.
C6_BlackAtZero ==
    \A f \in Shaded :
        f.remaining = 0 =>
            /\ ~f.reflect_cast
            /\ ~f.refract_cast
            /\ f.pc \in {"reflected_color", "refracted_color", "shade_hit_return"}
            /\ f.pc \in {"refracted_color", "shade_hit_return"} => f.reflected = BLACK
            /\ f.pc = "shade_hit_return" => f.refracted = BLACK

\* Both functions have returned at remaining = 0 on a material that both
\* reflects and transmits, in a nested call whose rays do hit objects.
C6_Witness ==
    /\ Len(s_stack) > 1
    /\ Top.remaining = 0
    /\ Top.pc = "shade_hit_return"
    /\ MaterialOf(Top.comps).reflective > 0
    /\ MaterialOf(Top.comps).transparency > 0
    /\ WorldIntersect(s_world, ReflectRay(Top.comps)) # None
    /\ hit(WorldIntersect(s_world, ReflectRay(Top.comps))[1]) # None

\* The ray meets no object of the world at a t > 0.
NoHit(world, ray) ==
    \A o \in 1..Len(world.objects) :
        \A j \in 1..Len(ObjectIntersect1(world.objects[o], ray)[1]) :
            ObjectIntersect1(world.objects[o], ray)[1][j] <= 0

\* C15: color_at returns black, as an ordinary value, whenever the ray has
\* no hit: when it intersects no object and when all its intersections are
\* at t <= 0.  Such a call shades nothing and makes no further call; made
\* for a secondary ray, it contributes black to the caller.
C15_BlackWithoutHit ==
    /\ (NoHit(s_world, s_ray) /\ s_steps > 0) =>
           /\ s_result = Some(BLACK)
           /\ s_stack = <<>>
           /\ s_calls = 1
           /\ s_steps = 1
    /\ \A f \in Shaded :
           /\ ~NoHit(s_world, f.ray)
           /\ (/\ f.pc \in {"refracted_color", "in_refracted_color", "shade_hit_return"}
               /\ NoHit(s_world, ReflectRay(f.comps))) => f.reflected = BLACK
           /\ (/\ f.pc = "shade_hit_return"
               /\ f.refract_cast
               /\ NoHit(s_world, RefractRay(f.comps))) => f.refracted = BLACK

\* color_at has returned black for the ray that starts on the upper plane,
\* in a world whose objects are all at t <= 0 on it.
C15_Witness ==
    /\ s_ray = RayNew(20, 1)
    /\ s_world.objects # <<>>
    /\ s_result = Some(BLACK)
    /\ \E o \in 1..Len(s_world.objects) :
           ObjectIntersect1(s_world.objects[o], s_ray)[1][1] = 0

\* C16: at any remaining depth, reflected_color returns black when the
\* material's reflective is 0 and refracted_color returns black when its
\* transparency is 0, both at once, without casting a secondary ray and so
\* without a call of color_at.
C16_BlackOnZeroCoefficient ==
    \A f \in Shaded :
        /\ MaterialOf(f.comps).reflective = 0 =>
               /\ ~f.reflect_cast
               /\ f.pc # "in_reflected_color"
               /\ f.reflected = BLACK
        /\ MaterialOf(f.comps).transparency = 0 =>
               /\ ~f.refract_cast
               /\ f.pc # "in_refracted_color"
               /\ f.refracted = BLACK

\* Both functions have returned for a material with reflective 0 and
\* transparency 0, in a nested call with depth to spare.
C16_Witness ==
    /\ Len(s_stack) > 1
    /\ Top.pc = "shade_hit_return"
    /\ Top.remaining > 0
    /\ MaterialOf(Top.comps).reflective = 0
    /\ MaterialOf(Top.comps).transparency = 0

\* C30: one call color_at(ray, d) causes at most 2^(d+1) - 1 invocations of
\* color_at, itself included, and exactly one is_shadowed query per shaded
\* hit; a shaded hit spawns at most one reflection ray and at most one
\* refraction ray, and only while remaining > 0.
C30_CallsAndShadowQueriesBounded ==
    /\ s_calls <= Pow2(s_depth + 1) - 1
    /\ s_shadowed = s_hits
    /\ s_hits <= s_calls
    /\ s_calls > 0 => s_calls <= 1 + 2 * s_hits
    /\ \A f \in Frames :
           /\ (f.reflect_cast \/ f.refract_cast) => f.remaining > 0
           /\ f.pc = "in_reflected_color" => (f.reflect_cast /\ ~f.refract_cast)
           /\ f.pc = "in_refracted_color" => f.refract_cast
    /\ \A j \in 1..(Len(s_stack) - 1) :
           s_stack[j].pc \in {"in_reflected_color", "in_refracted_color"}

\* A call with depth at least 2 that has returned after making as many calls
\* of color_at as the bound allows: every hit it shaded cast both rays.
C30_Witness ==
    /\ s_result # None
    /\ s_depth >= 2
    /\ s_calls = Pow2(s_depth + 1) - 1
    /\ s_hits >= 3
    /\ s_shadowed = s_hits

(***************************************************************************)
(* Camera and Canvas.  The scenes rendered are in space, with exact        *)
(* rational coordinates.  A ray's direction is kept unnormalized: it is a  *)
(* positive multiple of the program's, which multiplies every t of the ray *)
(* by one positive factor and changes neither which intersections exist,   *)
(* nor which are positive, nor their order.  The materials of these scenes *)
(* have ambient 1.0 and diffuse, specular, reflective and transparency 0,  *)
(* for which the colour shade_hit returns does not depend on the geometry  *)
(* of the hit.                                                             *)
(***************************************************************************)
REMAINING == 4

\* tan(field_of_view / 2) for the field_of_view PI / 2 of the examples.
HalfView == ROne

\* Camera::new.
CameraNew(hsize, vsize) ==
    LET half_view == HalfView
        aspect == RDiv(RInt(hsize), RInt(vsize))
        wide == ~RLess(aspect, ROne)
        half_width == IF wide THEN half_view ELSE RMul(half_view, aspect)
        half_height == IF wide THEN RDiv(half_view, aspect) ELSE half_view
    IN  [hsize |-> hsize, vsize |-> vsize, transform |-> identity,
         pixel_size |-> RDiv(RMul(half_width, RInt(2)), RInt(hsize)),
         half_width |-> half_width, half_height |-> half_height]

\* Camera::ray_for_pixel; the direction is pixel - origin.
ray_for_pixel(camera, px, py) ==
    LET xoffset == RMul(RAdd(RInt(px), <<1, 2>>), camera.pixel_size)
        yoffset == RMul(RAdd(RInt(py), <<1, 2>>), camera.pixel_size)
        world_x == RSub(camera.half_width, xoffset)
        world_y == RSub(camera.half_height, yoffset)
        transform_inverse == inverse(camera.transform)
        pixel == MulPoint(transform_inverse, <<world_x, world_y, RInt(-1)>>)
        origin == MulPoint(transform_inverse, <<RZero, RZero, RZero>>)
    IN  [origin |-> origin, direction |-> VSub(pixel, origin)]

\* Canvas::new: height rows of width cells, all BLACK.
CanvasNew(width, height) ==
    [y \in 0..(height - 1) |-> [x \in 0..(width - 1) |-> BLACK]]

\* An Object as Object::new returns it, with its caches.
SceneObject(material, transformation) ==
    [material |-> material, shape |-> "Sphere", transformation |-> transformation,
     transformation_inverse |-> inverse(transformation),
     transformation_inverse_transpose |-> transpose(inverse(transformation))]

FlatMaterial(color) ==
    [DefaultMaterial EXCEPT !.color = color, !.ambient = ColorScale,
                            !.diffuse = 0, !.specular = 0]

\* sort_intersections, on rational t.
RECURSIVE InsertByRationalT(_, _)
InsertByRationalT(sorted, x) ==
    IF sorted = <<>> THEN <<x>>
    ELSE IF ~RLess(x.t, Last(sorted).t) THEN Append(sorted, x)
    ELSE Append(InsertByRationalT(SubSeq(sorted, 1, Len(sorted) - 1), x), Last(sorted))

RECURSIVE SortByRationalT(_)
SortByRationalT(xs) ==
    IF xs = <<>> THEN <<>>
    ELSE InsertByRationalT(SortByRationalT(SubSeq(xs, 1, Len(xs) - 1)), Last(xs))

\* World::intersect on a scene in space.
RECURSIVE SceneCollect(_, _, _)
SceneCollect(objs, n, ray) ==
    IF n = 0 THEN <<>>
    ELSE LET ts == ObjectIntersect(objs[n], ray)
         IN  SceneCollect(objs, n - 1, ray) \o
             (IF ts = None THEN <<>>
              ELSE [j \in 1..Len(ts[1]) |-> [object |-> n, t |-> ts[1][j]]])

\* An intersect that returns the list also when it is empty.
SceneIntersectAlwaysSome(world, ray) ==
    Some(SortByRationalT(SceneCollect(world.objects, Len(world.objects), ray)))

SceneIntersect(world, ray) ==
    LET result == SceneCollect(world.objects, Len(world.objects), ray)
    IN  IF result # <<>> THEN Some(SortByRationalT(result)) ELSE None

\* hit, on rational t.
SceneHit(xs) ==
    LET pos == {j \in 1..Len(xs) : RLess(RZero, xs[j].t)}
    IN  IF pos = {} THEN None
        ELSE Some(xs[CHOOSE j \in pos : \A h \in pos : j <= h])

\* World::shade_hit for a material that neither reflects nor transmits and
\* has diffuse = specular = 0: lighting gives the ambient term in and out
\* of shadow, reflected_color and refracted_color give BLACK.
SceneShadeHit(world, object, remaining) ==
    LET material == world.objects[object].material
        effective_color == FMul(material.color, world.light.intensity)
        surface == FMul(effective_color, material.ambient)
    IN  surface + BLACK + BLACK

\* World::color_at on a scene in space.
color_at(world, ray, remaining) ==
    LET ixs == SceneIntersect(world, ray)
        h == SceneHit(ixs[1])
    IN  IF ixs = None \/ h = None THEN BLACK
        ELSE SceneShadeHit(world, h[1].object, remaining)

(***************************************************************************)
(* SpecRender: Camera::render.  The outer par_iter_mut().enumerate() gives *)
(* one task per row y, which holds the row exclusively; the inner one      *)
(* gives, within a row's task, one task per pixel x, which holds the cell  *)
(* exclusively.  Tasks run in any order and interleave at the two places   *)
(* where they touch shared state: bar.inc(1) and the write of the cell.    *)
(***************************************************************************)
Cells(camera) == (0..(camera.hsize - 1)) \X (0..(camera.vsize - 1))

\* A variant in which every task of a row is handed the row's first cell.
PixelRefFirst(x, y) == <<0, y>>

\* The cell that `pixel` refers to in the task with the indices (y, row)
\* and (x, pixel) of the two enumerate() calls.
PixelRef(x, y) == <<x, y>>

\* A variant that assigns through the row instead of through the cell.
AssignRow(image, cell, color) ==
    [image EXCEPT ![cell[2]] = [x \in DOMAIN image[cell[2]] |-> color]]

\* *pixel = color.
Assign(image, cell, color) ==
    [image EXCEPT ![cell[2]][cell[1]] = color]

\* Lines 52-53: the canvas and the progress bar; no task has started.
RenderStart ==
    /\ r_state = "called"
    /\ r_state' = "rendering"
    /\ r_image' = CanvasNew(r_camera.hsize, r_camera.vsize)
    /\ r_bar' = 0
    /\ r_row' = [y \in 0..(r_camera.vsize - 1) |-> "pending"]
    /\ r_pixel' = [c \in Cells(r_camera) |-> "pending"]
    /\ r_ray' = [c \in Cells(r_camera) |-> None]
    /\ r_writes' = [c \in Cells(r_camera) |-> <<>>]
    /\ UNCHANGED <<r_camera, r_world, r_overtaken, notRenderVars>>

\* Lines 54-58: the task of row y starts and offers its pixels' tasks.
RowTask(y) ==
    /\ r_state = "rendering"
    /\ r_row[y] = "pending"
    /\ r_row' = [r_row EXCEPT ![y] = "running"]
    /\ UNCHANGED <<r_camera, r_world, r_state, r_image, r_bar, r_pixel, r_ray,
                   r_writes, r_overtaken, notRenderVars>>

\* Lines 59-60: the task of pixel (x, y) computes its ray and advances the bar.
PixelBegin(x, y) ==
    /\ r_state = "rendering"
    /\ r_row[y] = "running"
    /\ r_pixel[<<x, y>>] = "pending"
    /\ r_ray' = [r_ray EXCEPT ![<<x, y>>] = Some(ray_for_pixel(r_camera, x, y))]
    /\ r_bar' = r_bar + 1
    /\ r_pixel' = [r_pixel EXCEPT ![<<x, y>>] = "traced"]
    /\ UNCHANGED <<r_camera, r_world, r_state, r_image, r_row, r_writes,
                   r_overtaken, notRenderVars>>

\* The pixels before (x, y) in row-major order.
Before(x, y) == {c \in Cells(r_camera) : c[2] < y \/ (c[2] = y /\ c[1] < x)}

\* Line 61: the task of pixel (x, y) computes the colour and writes it.
PixelWrite(x, y) ==
    /\ r_state = "rendering"
    /\ r_pixel[<<x, y>>] = "traced"
    /\ r_image' = Assign(r_image, PixelRef(x, y),
                         color_at(r_world, r_ray[<<x, y>>][1], REMAINING))
    /\ r_writes' = [r_writes EXCEPT ![PixelRef(x, y)] = Append(@, <<x, y>>)]
    /\ r_pixel' = [r_pixel EXCEPT ![<<x, y>>] = "done"]
    /\ r_overtaken' = (r_overtaken \/ \E c \in Before(x, y) : r_pixel[c] # "done")
    /\ UNCHANGED <<r_camera, r_world, r_state, r_bar, r_row, r_ray, notRenderVars>>

\* Line 65: for_each has returned, every task has finished; the image is
\* returned.
RenderReturn ==
    /\ r_state = "rendering"
    /\ \A y \in DOMAIN r_row : r_row[y] = "running"
    /\ \A c \in Cells(r_camera) : r_pixel[c] = "done"
    /\ r_state' = "returned"
    /\ UNCHANGED <<r_camera, r_world, r_image, r_bar, r_row, r_pixel, r_ray,
                   r_writes, r_overtaken, notRenderVars>>

NextRender ==
    \/ RenderStart
    \/ \E y \in 0..(r_camera.vsize - 1) : RowTask(y)
    \/ \E c \in Cells(r_camera) : PixelBegin(c[1], c[2])
    \/ \E c \in Cells(r_camera) : PixelWrite(c[1], c[2])
    \/ RenderReturn

\* The cameras, of canvases of at most MaxPixels cells, and the scenes: no
\* object; a unit sphere straight ahead, which the rays of some canvases all
\* miss; a unit sphere towards the upper left, which one ray of the 2 x 2
\* canvas hits.
MaxPixels == 4

Sizes == {hv \in (1..MaxPixels) \X (1..MaxPixels) : hv[1] * hv[2] <= MaxPixels}

Cameras == {CameraNew(hv[1], hv[2]) : hv \in Sizes}

SceneLight == [position |-> <<RInt(-10), RInt(10), RInt(-10)>>, intensity |-> WHITE]

Scenes ==
    { [light |-> SceneLight, objects |-> <<>>],
      [light |-> SceneLight,
       objects |-> <<SceneObject(FlatMaterial(80), translation(RZero, RZero, RInt(-2)))>>],
      [light |-> SceneLight,
       objects |-> <<SceneObject(FlatMaterial(60), translation(ROne, ROne, RInt(-3)))>>] }

InitRenderIdle ==
    /\ r_camera = <<>>
    /\ r_world = <<>>
    /\ r_state = "idle"
    /\ r_image = <<>>
    /\ r_bar = 0
    /\ r_row = <<>>
    /\ r_pixel = <<>>
    /\ r_ray = <<>>
    /\ r_writes = <<>>
    /\ r_overtaken = FALSE

InitRenderCall ==
    /\ r_camera \in Cameras
    /\ r_world \in Scenes
    /\ r_state = "called"
    /\ r_image = <<>>
    /\ r_bar = 0
    /\ r_row = <<>>
    /\ r_pixel = <<>>
    /\ r_ray = <<>>
    /\ r_writes = <<>>
    /\ r_overtaken = FALSE

(***************************************************************************)
(* Claims about Camera::render                                             *)
(***************************************************************************)
Rendering == r_state \in {"rendering", "returned"}

\* C9: during render every cell (x, y) of the canvas is written at most
\* once, only by the task of pixel (x, y), so never by two tasks, and with
\* world.color_at(ray_for_pixel(x, y), 4); a cell not yet written is still
\* BLACK; when render returns every cell has been written exactly once.
C9_EachCellWrittenOnce ==
    Rendering =>
        \A c \in Cells(r_camera) :
            /\ Len(r_writes[c]) <= 1
            /\ \A j \in 1..Len(r_writes[c]) : r_writes[c][j] = c
            /\ r_writes[c] = <<>> => r_image[c[2]][c[1]] = BLACK
            /\ r_writes[c] # <<>> =>
                   r_image[c[2]][c[1]] =
                       color_at(r_world, ray_for_pixel(r_camera, c[1], c[2]), REMAINING)
            /\ (r_writes[c] # <<>>) = (r_pixel[c] = "done")
            /\ r_state = "returned" => Len(r_writes[c]) = 1

\* render has returned a canvas of several rows and columns in which some
\* cells were written with BLACK and others with the colour of an object.
C9_Witness ==
    /\ r_state = "returned"
    /\ r_camera.hsize > 1
    /\ r_camera.vsize > 1
    /\ \A c \in Cells(r_camera) : r_writes[c] = <<c>>
    /\ \E c \in Cells(r_camera) : r_image[c[2]][c[1]] = BLACK
    /\ \E c \in Cells(r_camera) : r_image[c[2]][c[1]] # BLACK

\* The image of a world through a camera.
Image(world, camera) ==
    [y \in 0..(camera.vsize - 1) |-> [x \in 0..(camera.hsize - 1) |->
        color_at(world, ray_for_pixel(camera, x, y), REMAINING)]]

\* C10: the canvas render returns is the same whatever the order in which
\* the pixel tasks ran: it is the image of the world through the camera,
\* each cell a function of the world, the camera and the cell's coordinates
\* alone; and the bar has counted every pixel.
C10_ImageIndependentOfOrder ==
    r_state = "returned" =>
        /\ r_image = Image(r_world, r_camera)
        /\ r_bar = r_camera.hsize * r_camera.vsize

\* render has returned after a run in which some pixel was written before a
\* pixel that precedes it, and the image is not of one colour.
C10_Witness ==
    /\ r_state = "returned"
    /\ r_overtaken
    /\ \E c, e \in Cells(r_camera) : r_image[c[2]][c[1]] # r_image[e[2]][e[1]]

(***************************************************************************)
(* SpecFn: calls of the functions that return without recursion, each on   *)
(* arguments drawn from a small set.  A behaviour makes one call, or       *)
(* sort_intersections and then hit; f_call records the last call.          *)
(***************************************************************************)
CallOf(fn, args, result) == [fn |-> fn, args |-> args, result |-> result]

InitFnIdle ==
    /\ f_xs = <<>>
    /\ f_call = CallOf("none", <<>>, <<>>)

\* The lists of at most MaxHitLen intersections, in any order, with t
\* negative, zero and positive.
MaxHitLen == 4

HitElements == [object : 1..2, t : -1..2]

HitLists == UNION {[1..n -> HitElements] : n \in 0..MaxHitLen}

\* sort_intersections(&mut xs).
SortIntersectionsCall(xs) ==
    /\ f_call.fn = "none"
    /\ f_xs' = sort_intersections(xs)
    /\ f_call' = CallOf("sort_intersections", <<xs>>, f_xs')
    /\ UNCHANGED notFnVars

\* hit(xs), on the list sort_intersections has just left.
HitCall ==
    /\ f_call.fn = "sort_intersections"
    /\ f_call' = CallOf("hit", <<f_xs>>, hit(f_xs))
    /\ UNCHANGED <<f_xs, notFnVars>>

\* The worlds of at most MaxObjects objects, in any order, among two
\* different planes in one place, a sphere whose top is in that place and
\* a sphere whose bottom is; and rays from inside and outside, up and down.
MaxObjects == 3

ObjectChoices ==
    { MakeObject(Matte, "Plane", 10, 1),
      MakeObject(Glass, "Plane", 10, 1),
      MakeObject(Glass, "Sphere", 0, 10),
      MakeObject(Matte, "Sphere", 20, 10) }

AxisLight == [position |-> -15, intensity |-> WHITE]

AxisWorlds ==
    {[light |-> AxisLight, objects |-> objects] :
        objects \in UNION {[1..n -> ObjectChoices] : n \in 0..MaxObjects}}

AxisRays == {RayNew(origin, direction) : origin \in {0, 35}, direction \in {1, -1}}

\* world.intersect(&ray).
WorldIntersectCall(world, ray) ==
    /\ f_call.fn = "none"
    /\ f_call' = CallOf("World::intersect", <<world, ray>>, WorldIntersect(world, ray))
    /\ UNCHANGED <<f_xs, notFnVars>>

\* Refractive indices on the two sides of a surface, cosines of the angle
\* between eyev and normalv, and colours.
IndexPairs == {<<10, 10>>, <<10, 15>>, <<15, 10>>, <<20, 15>>}

Cosines == {0, 25, 50, 71, 90, ColorScale}

Colors == {BLACK, 40, 60}

\* The last statement of world.shade_hit(&comps, remaining), for the three
\* colours that lighting, reflected_color and refracted_color returned.
ShadeHitCall(material, n, cos, surface, reflected, refracted) ==
    /\ f_call.fn = "none"
    /\ f_call' = CallOf("World::shade_hit",
                        <<material, n[1], n[2], cos, surface, reflected, refracted>>,
                        ShadeHitSum(material, Shlick(n[1], n[2], cos),
                                    surface, reflected, refracted))
    /\ UNCHANGED <<f_xs, notFnVars>>

\* Positions of the light, one of them on the surfaces at 10, and points
\* below, between and above the objects.
LightPositions == {-15, 10}

AxisPoints == {-20, 5, 15, 40}

WithLightAt(world, position) == [world EXCEPT !.light.position = position]

\* world.is_shadowed(&point); the point is not the light's position.
IsShadowedCall(world, point) ==
    /\ f_call.fn = "none"
    /\ point # world.light.position
    /\ f_call' = CallOf("World::is_shadowed", <<world, point>>, IsShadowed(world, point))
    /\ UNCHANGED <<f_xs, notFnVars>>

\* One call World::refracted_color(comps, remaining) up to its call of
\* color_at, on the values it reads from comps: the object's material, n1,
\* n2 and cos_i = eyev . normalv.  The result is the colour it returns at
\* once, or None when it goes on to cast the refraction ray.
RefractedColorCall(material, remaining, n, cos_i) ==
    /\ f_call.fn = "none"
    /\ f_call' = CallOf("World::refracted_color", <<material, remaining, n[1], n[2], cos_i>>,
                        IF \/ RefractedColorIsBlack(material, remaining)
                           \/ TotalInternalReflection(n[1], n[2], cos_i)
                        THEN Some(BLACK) ELSE None)
    /\ UNCHANGED <<f_xs, notFnVars>>

\* One call Computation::shlick() on a Computation with the given n1, n2
\* and eyev . normalv.
ShlickCall(n, cos) ==
    /\ f_call.fn = "none"
    /\ f_call' = CallOf("Computation::shlick", <<n[1], n[2], cos>>, Shlick(n[1], n[2], cos))
    /\ UNCHANGED <<f_xs, notFnVars>>

Directions == {1, -1}

\* One call Material::lighting(light, object, point, eyev, normalv, in_shadow).
LightingCall(material, light, point, eyev, normalv, in_shadow) ==
    /\ f_call.fn = "none"
    /\ point # light.position
    /\ f_call' = CallOf("Material::lighting",
                        <<material, light, point, eyev, normalv, in_shadow>>,
                        Lighting(material, light, point, eyev, normalv, in_shadow))
    /\ UNCHANGED <<f_xs, notFnVars>>

\* Computation::new(ray, hit, &[]) for the hit of ray in world.
HitComps(world, ray) ==
    ComputationNew(world.objects, ray, 0, hit(WorldIntersect(world, ray)[1])[1], <<>>)

\* One call World::shade_hit(comps, remaining), comps prepared for the hit
\* of ray, where neither reflected_color nor refracted_color goes on to
\* color_at.
ShadeHitOfHitCall(world, ray, remaining) ==
    /\ f_call.fn = "none"
    /\ WorldIntersect(world, ray) # None
    /\ hit(WorldIntersect(world, ray)[1]) # None
    /\ LET comps == HitComps(world, ray)
           material == world.objects[comps.object].material
           surface == Lighting(material, world.light, comps.point, comps.eyev,
                               comps.normalv, IsShadowed(world, comps.over_point))
       IN  /\ ReflectedColorIsBlack(material, remaining)
           /\ RefractedColorIsBlack(material, remaining)
           /\ f_call' = CallOf("World::shade_hit of a hit", <<world, ray, remaining>>,
                               ShadeHitSum(material,
                                           Shlick(comps.n1, comps.n2, CosI(comps)),
                                           surface, BLACK, BLACK))
    /\ UNCHANGED <<f_xs, notFnVars>>

MaxEntry == 2

\* A 4x4 Matrice with the given integer rows.
MatriceOf(rows) ==
    [size |-> 4, data |-> Vec([r \in 1..4 |-> Vec([c \in 1..4 |-> RInt(rows[r][c])])])]

\* The transforms, their products, and dense matrices without symmetry,
\* some of them singular.
MatriceChoices ==
    Transforms
    \cup {mul(a, b) : a \in Transforms, b \in Transforms}
    \cup {MatriceOf(<< <<a, 2, 6, -8>>, <<1, b, 1, 8>>, <<7, 7, -6, -7>>, <<1, -3, 7, 4>> >>) :
              a \in (-MaxEntry)..MaxEntry, b \in (-MaxEntry)..MaxEntry}
    \cup {MatriceOf(<< <<a, 2, 0, 1>>, <<2 * a, 4, 0, 2>>, <<0, 1, b, 0>>, <<1, 0, 0, 1>> >>) :
              a \in (-MaxEntry)..MaxEntry, b \in (-MaxEntry)..MaxEntry}

\* m.clone() * m.inverse(): one call Matrice::inverse and, when it returns,
\* the product of the matrix with what it returned.
InverseCall(m) ==
    /\ f_call.fn = "none"
    /\ \E inv \in {inverse(m)} :
           f_call' = CallOf("Matrice::inverse", <<m>>,
                            [inverse |-> inv,
                             product |-> IF inv = Panic THEN Panic ELSE mul(m, inv)])
    /\ UNCHANGED <<f_xs, notFnVars>>

\* Canvas (canvas.rs) with colours of three channels, in hundredths.
Canvas(width, height, pixels) ==
    [width |-> width, height |-> height,
     canvas |-> [y \in 0..(height - 1) |-> [x \in 0..(width - 1) |-> pixels[y * width + x + 1]]]]

\* A clamp without the lower limit.
ClampUpperOnly(c) ==
    LET x == c * 255
    IN  IF x > 255 * ColorScale THEN 255 * ColorScale ELSE x

\* Color::clamp on one channel: the channel times 255.0, limited to
\* [0.0, 255.0].
Clamp(c) ==
    LET x == c * 255
        upper == IF x > 255 * ColorScale THEN 255 * ColorScale ELSE x
    IN  IF upper < 0 THEN 0 ELSE upper

ColorClamp(color) == <<Clamp(color[1]), Clamp(color[2]), Clamp(color[3])>>

\* f64 as i64: the fraction is dropped, towards zero.
AsI64(x) == IF x >= 0 THEN x \div ColorScale ELSE -((-x) \div ColorScale)

\* Tuple::as_str: one line of three integers.
as_str(rgb) == <<AsI64(rgb[1]), AsI64(rgb[2]), AsI64(rgb[3])>>

\* Canvas::to_ppm, lines 20-24: the lines pushed for the rows from y on.
RECURSIVE PpmRows(_, _)
PpmRows(canvas, y) ==
    IF y >= canvas.height THEN <<>>
    ELSE [x \in 1..canvas.width |-> as_str(ColorClamp(canvas.canvas[y][x - 1]))]
         \o PpmRows(canvas, y + 1)

\* Canvas::to_ppm; the String is held as its lines, each line as its words.
to_ppm(canvas) ==
    << <<"P3">>, <<canvas.width, canvas.height>>, <<255>> >> \o PpmRows(canvas, 0)

PpmColors == {<<-50, 0, 150>>, <<50, ColorScale, 33>>, <<0, 101, -1>>}

PpmSizes == {wh \in (0..MaxPixels) \X (0..MaxPixels) : wh[1] * wh[2] <= MaxPixels}

PpmCanvases ==
    UNION {{Canvas(wh[1], wh[2], pixels) : pixels \in [1..(wh[1] * wh[2]) -> PpmColors]} :
               wh \in PpmSizes}

ToPpmCall(canvas) ==
    /\ f_call.fn = "none"
    /\ f_call' = CallOf("Canvas::to_ppm", <<canvas>>, to_ppm(canvas))
    /\ UNCHANGED <<f_xs, notFnVars>>

MaxCoord == 2

IntVector(x, y, z) == <<RInt(x), RInt(y), RInt(z)>>

\* Rays along the axes, of length 1 or 2, from the points of a grid: they
\* miss the unit sphere, touch it or cross it, from outside and from inside.
AxisDirections ==
    {IntVector(d, 0, 0) : d \in {-1, 1, 2}} \cup {IntVector(0, d, 0) : d \in {-1, 1, 2}}
    \cup {IntVector(0, 0, d) : d \in {-1, 1, 2}}

SphereRays ==
    {[origin |-> IntVector(x, y, z), direction |-> direction] :
         x \in (-MaxCoord)..MaxCoord, y \in (-MaxCoord)..MaxCoord,
         z \in (-MaxCoord)..MaxCoord, direction \in AxisDirections}

\* One call Shape::Sphere.intersect(ray).
IntersectSphereCall(ray) ==
    /\ f_call.fn = "none"
    /\ f_call' = CallOf("intersect_sphere", <<ray>>, intersect_sphere(ray))
    /\ UNCHANGED <<f_xs, notFnVars>>

TransformRays ==
    {[origin |-> origin, direction |-> direction] :
         origin \in {IntVector(1, 2, 3), IntVector(0, 0, -5), IntVector(-1, 0, 2)},
         direction \in {IntVector(0, 1, 0), IntVector(1, -2, 3), IntVector(0, 0, 1)}}

TransformParameters ==
    {IntVector(3, 4, 5), IntVector(2, 3, 4), IntVector(-1, 0, 1), <<<<1, 2>>, ROne, RInt(-3)>>}

\* One call Ray::transform(m) with m = translation(x, y, z) or
\* scaling(x, y, z).
RayTransformCall(ray, kind, xyz) ==
    /\ f_call.fn = "none"
    /\ LET m == IF kind = "translation" THEN translation(xyz[1], xyz[2], xyz[3])
                ELSE scaling(xyz[1], xyz[2], xyz[3])
       IN  f_call' = CallOf("Ray::transform", <<ray, kind, xyz>>, RayTransform(ray, m))
    /\ UNCHANGED <<f_xs, notFnVars>>

(***************************************************************************)
(* Cylinder and Cone (shape.rs), on rays in space with rational            *)
(* coordinates.                                                            *)
(***************************************************************************)
\* consts.rs: EPSILON = 1.0e-7, as a rational.
EPSILON_F64 == <<1, 10000000>>

RAbs(p) == <<Abs(p[1]), p[2]>>

RLessEq(p, q) == ~RLess(q, p)

Pow2R(p) == RMul(p, p)

check_cap(ray, t) ==
    LET x == RAdd(ray.origin[1], RMul(t, ray.direction[1]))
        z == RAdd(ray.origin[3], RMul(t, ray.direction[3]))
    IN  RLessEq(RAdd(Pow2R(x), Pow2R(z)), ROne)

intersect_cap(minimum, maximum, closed, ray) ==
    LET direction_y == ray.direction[2]
        origin_y == ray.origin[2]
    IN  IF ~closed \/ RLessEq(RAbs(direction_y), EPSILON_F64) THEN None
        ELSE LET t_min == RDiv(RSub(minimum, origin_y), direction_y)
                 t_max == RDiv(RSub(maximum, origin_y), direction_y)
                 res == (IF check_cap(ray, t_min) THEN <<t_min>> ELSE <<>>)
                        \o (IF check_cap(ray, t_max) THEN <<t_max>> ELSE <<>>)
             IN  IF res = <<>> THEN None ELSE Some(res)

\* Lines 245-254 of intersect_cylinder and 427-436 of intersect_cone: the
\* roots whose y lies strictly between minimum and maximum.
LateralRoots(a, b, disc, minimum, maximum, ray) ==
    LET t0 == RDiv(RSub(RNeg(b), RSqrt(disc)), RMul(RInt(2), a))
        t1 == RDiv(RAdd(RNeg(b), RSqrt(disc)), RMul(RInt(2), a))
        y_0 == RAdd(ray.origin[2], RMul(t0, ray.direction[2]))
        y_1 == RAdd(ray.origin[2], RMul(t1, ray.direction[2]))
    IN  (IF RLess(minimum, y_0) /\ RLess(y_0, maximum) THEN <<t0>> ELSE <<>>)
        \o (IF RLess(minimum, y_1) /\ RLess(y_1, maximum) THEN <<t1>> ELSE <<>>)

intersect_cylinder(minimum, maximum, closed, ray) ==
    LET a == RAdd(Pow2R(ray.direction[1]), Pow2R(ray.direction[3]))
        b == RAdd(RMul(RMul(RInt(2), ray.origin[1]), ray.direction[1]),
                  RMul(RMul(RInt(2), ray.origin[3]), ray.direction[3]))
        c == RSub(RAdd(Pow2R(ray.origin[1]), Pow2R(ray.origin[3])), ROne)
        disc == RSub(Pow2R(b), RMul(RMul(RInt(4), a), c))
        caps == intersect_cap(minimum, maximum, closed, ray)
    IN  IF RLess(RAbs(a), EPSILON_F64) THEN caps
        ELSE IF RLess(disc, RZero) THEN None
        ELSE LET res == LateralRoots(a, b, disc, minimum, maximum, ray)
                        \o (IF caps # None THEN caps[1] ELSE <<>>)
             IN  IF res # <<>> THEN Some(res) ELSE None

check_cone_cap(ray, t, radius) ==
    LET x == RAdd(ray.origin[1], RMul(t, ray.direction[1]))
        z == RAdd(ray.origin[3], RMul(t, ray.direction[3]))
    IN  RLessEq(RAdd(Pow2R(x), Pow2R(z)), Pow2R(radius))

intersect_cone_cap(minimum, maximum, closed, ray) ==
    LET direction_y == ray.direction[2]
        origin_y == ray.origin[2]
    IN  IF ~closed \/ RLessEq(RAbs(direction_y), EPSILON_F64) THEN None
        ELSE LET t_min == RDiv(RSub(minimum, origin_y), direction_y)
                 t_max == RDiv(RSub(maximum, origin_y), direction_y)
                 res == (IF check_cone_cap(ray, t_min, minimum) THEN <<t_min>> ELSE <<>>)
                        \o (IF check_cone_cap(ray, t_max, maximum) THEN <<t_max>> ELSE <<>>)
             IN  IF res = <<>> THEN None ELSE Some(res)

intersect_cone(minimum, maximum, closed, ray) ==
    LET a == RAdd(RSub(Pow2R(ray.direction[1]), Pow2R(ray.direction[2])),
                  Pow2R(ray.direction[3]))
        b == RAdd(RSub(RMul(RMul(RInt(2), ray.origin[1]), ray.direction[1]),
                       RMul(RMul(RInt(2), ray.origin[2]), ray.direction[2])),
                  RMul(RMul(RInt(2), ray.origin[3]), ray.direction[3]))
        c == RAdd(RSub(Pow2R(ray.origin[1]), Pow2R(ray.origin[2])), Pow2R(ray.origin[3]))
        disc == RSub(Pow2R(b), RMul(RMul(RInt(4), a), c))
        caps == intersect_cone_cap(minimum, maximum, closed, ray)
    IN  IF RLessEq(RAbs(a), EPSILON_F64) /\ RLessEq(EPSILON_F64, RAbs(b))
        THEN Some(<<RDiv(RNeg(c), RMul(RInt(2), b))>>
                  \o (IF caps # None THEN caps[1] ELSE <<>>))
        ELSE IF RLess(disc, RZero) THEN None
        \* With a = 0 and b = 0 the roots are 0.0 / 0.0 = NaN or c / 0.0 =
        \* infinite, and so is y: no comparison with minimum or maximum holds
        \* for NaN, nor both for an infinite y.
        ELSE LET lateral == IF a = RZero THEN <<>>
                            ELSE LateralRoots(a, b, disc, minimum, maximum, ray)
                 res == lateral \o (IF caps # None THEN caps[1] ELSE <<>>)
             IN  IF res # <<>> THEN Some(res) ELSE None

\* Shape::intersect on Shape::Cylinder and Shape::Cone.
ShapeIntersect(shape, ray) ==
    IF shape.kind = "Cylinder"
    THEN intersect_cylinder(shape.minimum, shape.maximum, shape.closed, ray)
    ELSE intersect_cone(shape.minimum, shape.maximum, shape.closed, ray)

\* The truncations of the tests: Cylinder(1.0, 2.0, _), Cone(-0.5, 0.5, _).
Truncations == {<<ROne, RInt(2)>>, <<<<-1, 2>>, <<1, 2>>>>, <<RInt(-1), RInt(2)>>}

TruncatedShapes ==
    {[kind |-> kind, minimum |-> mm[1], maximum |-> mm[2], closed |-> closed] :
         kind \in {"Cylinder", "Cone"}, mm \in Truncations, closed \in BOOLEAN}

\* sqrt is exact on p: p is negative or the square of a rational.
HasRationalRoot(p) ==
    \/ RLess(p, RZero)
    \/ ISqrt(p[1] * p[2]) * ISqrt(p[1] * p[2]) = p[1] * p[2]

\* Rays from the points of a grid, across the axis, along it, and parallel
\* to a nappe of the cone; those on which disc.sqrt() is exact.
ShapeRays ==
    {ray \in {[origin |-> IntVector(x, y, z), direction |-> direction] :
                 x \in {0, 1}, y \in (-MaxCoord)..MaxCoord, z \in (-MaxCoord)..MaxCoord,
                 direction \in {IntVector(0, 0, 1), IntVector(1, 0, 0), IntVector(0, 1, 0),
                                IntVector(0, 1, 1), IntVector(0, -1, 1), IntVector(1, 1, 0),
                                IntVector(0, 1, 2)}} :
        LET d == ray.direction
            o == ray.origin
            cyl_a == RAdd(Pow2R(d[1]), Pow2R(d[3]))
            cyl_b == RAdd(RMul(RMul(RInt(2), o[1]), d[1]), RMul(RMul(RInt(2), o[3]), d[3]))
            cyl_c == RSub(RAdd(Pow2R(o[1]), Pow2R(o[3])), ROne)
            cone_a == RAdd(RSub(Pow2R(d[1]), Pow2R(d[2])), Pow2R(d[3]))
            cone_b == RAdd(RSub(RMul(RMul(RInt(2), o[1]), d[1]),
                                RMul(RMul(RInt(2), o[2]), d[2])),
                           RMul(RMul(RInt(2), o[3]), d[3]))
            cone_c == RAdd(RSub(Pow2R(o[1]), Pow2R(o[2])), Pow2R(o[3]))
        IN  /\ HasRationalRoot(RSub(Pow2R(cyl_b), RMul(RMul(RInt(4), cyl_a), cyl_c)))
            /\ HasRationalRoot(RSub(Pow2R(cone_b), RMul(RMul(RInt(4), cone_a), cone_c)))}

\* One call Shape::intersect(ray) on a truncated Cylinder or Cone.
ShapeIntersectCall(shape, ray) ==
    /\ f_call.fn = "none"
    /\ f_call' = CallOf("Shape::intersect", <<shape, ray>>, ShapeIntersect(shape, ray))
    /\ UNCHANGED <<f_xs, notFnVars>>

\* The list handed to Computation::new for the target xs[j]: xs itself, the
\* empty list, or xs without the target.
PassedList(xs, j, passed) ==
    IF passed = "full" THEN xs
    ELSE IF passed = "empty" THEN <<>>
    ELSE RemoveAt(xs, j)

\* One call Computation::new(ray, i, list) for an intersection i of ray with
\* an object of world.
ComputationNewCall(world, ray, j, passed) ==
    /\ f_call.fn = "none"
    /\ WorldIntersect(world, ray) # None
    /\ j <= Len(WorldIntersect(world, ray)[1])
    /\ LET xs == WorldIntersect(world, ray)[1]
       IN  f_call' = CallOf("Computation::new", <<world, ray, j, passed>>,
                            ComputationNew(world.objects, ray,
                                           IF passed = "full" THEN j ELSE 0,
                                           xs[j], PassedList(xs, j, passed)))
    /\ UNCHANGED <<f_xs, notFnVars>>

(***************************************************************************)
(* Stripe pattern (pattern.rs).  The x of a pattern-space point is the f64 *)
(* (n / d) * 2^e, with e = 0 or d = 1: the small rationals, and integers   *)
(* beyond the range of i32, which f64 holds exactly.                       *)
(***************************************************************************)
I32_MAX == 2147483647
I32_MIN == -I32_MAX - 1

\* f64 as i32 of the whole number n * 2^e: the number itself if i32 holds it,
\* otherwise the nearest bound of i32.
RECURSIVE AsI32(_, _)
AsI32(n, e) ==
    IF e = 0 THEN n
    ELSE LET half == AsI32(n, e - 1)
         IN  IF half > I32_MAX \div 2 THEN I32_MAX
             ELSE IF half < -(I32_MAX \div 2) - 1 THEN I32_MIN
             ELSE 2 * half

\* x.floor() as i32.
FloorAsI32(x) == IF x.e = 0 THEN x.n \div x.d ELSE AsI32(x.n, x.e)

\* % on i32: the remainder has the sign of the dividend.
RemI32(a, b) ==
    LET r == a % b
    IN  IF r # 0 /\ a < 0 THEN r - b ELSE r

at_stripe(c1, c2, x) ==
    IF RemI32(FloorAsI32(x), 2) = 0 THEN c1 ELSE c2

StripeXs ==
    {[n |-> n, d |-> d, e |-> 0] : n \in (-4 * MaxCoord)..(4 * MaxCoord), d \in {1, 2, 4}}
    \cup {[n |-> n, d |-> 1, e |-> e] : n \in {-3, -2, -1, 1, 2, 3}, e \in {29, 30, 31, 32, 40}}

\* One call of PatternType::Stripe(c1, c2).at(point), point.x = x.
AtStripeCall(c1, c2, x) ==
    /\ f_call.fn = "none"
    /\ f_call' = CallOf("at_stripe", <<c1, c2, x>>, at_stripe(c1, c2, x))
    /\ UNCHANGED <<f_xs, notFnVars>>

(***************************************************************************)
(* World::add_shape, add_shapes and intersect on scenes in space.          *)
(***************************************************************************)
add_shape(world, object) == [world EXCEPT !.objects = Append(@, object)]

RECURSIVE add_shapes(_, _)
add_shapes(world, objects) ==
    IF objects = <<>> THEN world
    ELSE add_shapes(add_shape(world, Head(objects)), Tail(objects))

\* Unit spheres, one of glass, at three places.
SpaceObjects ==
    {SceneObject(FlatMaterial(80), identity),
     SceneObject(FlatMaterial(60), translation(RZero, RZero, RInt(3))),
     SceneObject(GlassMaterial(15), translation(RInt(2), RZero, RZero))}

ObjectLists == UNION {[1..n -> SpaceObjects] : n \in 0..2}

SpaceWorlds == {add_shapes([light |-> SceneLight, objects |-> <<>>], objects) :
                    objects \in ObjectLists}

SpaceRays ==
    {[origin |-> IntVector(x, y, -5), direction |-> direction] :
         x \in (-MaxCoord)..MaxCoord, y \in (-MaxCoord)..MaxCoord,
         direction \in {IntVector(0, 0, 1), IntVector(0, 0, -1), IntVector(1, 0, 0)}}

\* One call world.intersect(&ray) on a scene in space.
SceneIntersectCall(world, ray) ==
    /\ f_call.fn = "none"
    /\ f_call' = CallOf("World::intersect in space", <<world, ray>>, SceneIntersect(world, ray))
    /\ UNCHANGED <<f_xs, notFnVars>>

\* One call world.add_shapes(objects); add_shape is the call with one
\* object.
AddShapesCall(world, objects) ==
    /\ f_call.fn = "none"
    /\ f_call' = CallOf("World::add_shapes", <<world, objects>>, add_shapes(world, objects))
    /\ UNCHANGED <<f_xs, notFnVars>>

NextFn ==
    \/ \E xs \in HitLists : SortIntersectionsCall(xs)
    \/ HitCall
    \/ \E world \in AxisWorlds, ray \in AxisRays : WorldIntersectCall(world, ray)
    \/ \E material \in Materials, n \in IndexPairs, cos \in Cosines,
          surface \in Colors, reflected \in Colors, refracted \in Colors :
              ShadeHitCall(material, n, cos, surface, reflected, refracted)
    \/ \E world \in AxisWorlds, position \in LightPositions, point \in AxisPoints :
           IsShadowedCall(WithLightAt(world, position), point)
    \/ \E material \in Materials, remaining \in 0..1, n \in IndexPairs, cos_i \in Cosines :
           RefractedColorCall(material, remaining, n, cos_i)
    \/ \E n \in IndexPairs, cos \in Cosines : ShlickCall(n, cos)
    \/ \E material \in Materials, position \in LightPositions, point \in AxisPoints,
          eyev \in Directions, normalv \in Directions, in_shadow \in BOOLEAN :
           LightingCall(material, [AxisLight EXCEPT !.position = position],
                        point, eyev, normalv, in_shadow)
    \/ \E world \in AxisWorlds, position \in LightPositions, ray \in AxisRays,
          remaining \in 0..1 :
           ShadeHitOfHitCall(WithLightAt(world, position), ray, remaining)
    \/ \E m \in MatriceChoices : InverseCall(m)
    \/ \E canvas \in PpmCanvases : ToPpmCall(canvas)
    \/ \E ray \in SphereRays : IntersectSphereCall(ray)
    \/ \E ray \in TransformRays, kind \in {"translation", "scaling"},
          xyz \in TransformParameters : RayTransformCall(ray, kind, xyz)
    \/ \E shape \in TruncatedShapes, ray \in ShapeRays : ShapeIntersectCall(shape, ray)
    \/ \E world \in AxisWorlds, ray \in AxisRays, j \in 1..(2 * MaxObjects),
          passed \in {"full", "empty", "rest"} : ComputationNewCall(world, ray, j, passed)
    \/ \E c \in {<<WHITE, BLACK>>, <<BLACK, WHITE>>, <<40, 60>>}, x \in StripeXs :
           AtStripeCall(c[1], c[2], x)
    \/ \E world \in SpaceWorlds, ray \in SpaceRays : SceneIntersectCall(world, ray)
    \/ \E world \in SpaceWorlds, objects \in ObjectLists : AddShapesCall(world, objects)

(***************************************************************************)
(* Claims about the functions that do not recurse                          *)
(***************************************************************************)
\* C11: on a list sorted by sort_intersections, hit returns the
\* intersection with the smallest strictly positive t, and None when no
\* intersection has t > 0; an intersection with t <= 0 is never the hit.
C11_HitIsSmallestPositive ==
    f_call.fn = "hit" =>
        LET xs == f_call.args[1]
            pos == {j \in 1..Len(xs) : xs[j].t > 0}
        IN  IF pos = {} THEN f_call.result = None
            ELSE /\ f_call.result # None
                 /\ f_call.result[1].t > 0
                 /\ \E j \in pos : f_call.result[1] = xs[j]
                 /\ \A j \in pos : f_call.result[1].t <= xs[j].t

\* hit on a sorted list that begins with a negative and a zero t and has
\* two different positive t.
C11_Witness ==
    /\ f_call.fn = "hit"
    /\ Len(f_call.args[1]) = 4
    /\ f_call.args[1][1].t < 0
    /\ f_call.args[1][2].t = 0
    /\ f_call.args[1][3].t = 1
    /\ f_call.args[1][4].t = 2
    /\ f_call.result = Some(f_call.args[1][3])

\* The number of elements of the sequence xs that satisfy Is(_).
CountOf(xs, Is(_)) == Cardinality({j \in 1..Len(xs) : Is(xs[j])})

C13_ShadeHitBlend ==
    f_call.fn = "World::shade_hit" =>
        LET material == f_call.args[1]
            reflectance == Shlick(f_call.args[2], f_call.args[3], f_call.args[4])
            surface == f_call.args[5]
            reflected == f_call.args[6]
            refracted == f_call.args[7]
        IN  IF material.reflective > 0 /\ material.transparency > 0
            THEN f_call.result = surface + FMul(reflected, reflectance)
                                         + FMul(refracted, ColorScale - reflectance)
            ELSE f_call.result = surface + reflected + refracted

\* shade_hit on a material that reflects and transmits, with a reflectance
\* strictly between 0 and 1 and three colours that are not black.
C13_Witness ==
    /\ f_call.fn = "World::shade_hit"
    /\ f_call.args[1].reflective > 0
    /\ f_call.args[1].transparency > 0
    /\ Shlick(f_call.args[2], f_call.args[3], f_call.args[4]) \in 1..(ColorScale - 1)
    /\ f_call.args[5] > 0
    /\ f_call.args[6] > 0
    /\ f_call.args[7] > 0
    /\ f_call.result < f_call.args[5] + f_call.args[6] + f_call.args[7]

\* The t > 0 at which the ray from point towards the light of world meets
\* an object.
TowardsLight(world, point) ==
    LET r == RayNew(point, IF world.light.position > point THEN 1 ELSE -1)
    IN  {t \in 1..100 : \E o \in 1..Len(world.objects) :
            \E j \in 1..Len(ObjectIntersect1(world.objects[o], r)[1]) :
                ObjectIntersect1(world.objects[o], r)[1][j] = t}

\* C14: is_shadowed(point) is true if and only if the ray from point
\* towards the light has a hit, the smallest t > 0, with t strictly less
\* than the distance from point to the light; an object behind the light
\* or behind the point, or a hit at exactly the light's distance, does not
\* shadow the point.
C14_ShadowedIffHitBeforeLight ==
    f_call.fn = "World::is_shadowed" =>
        LET world == f_call.args[1]
            point == f_call.args[2]
            distance == Abs(world.light.position - point)
            ts == TowardsLight(world, point)
        IN  f_call.result =
                (/\ ts # {}
                 /\ \E t \in ts : (\A u \in ts : t <= u) /\ t < distance)

\* is_shadowed on a point whose nearest object towards the light is met at
\* exactly the light's distance, with another object behind the light and
\* one behind the point.
C14_Witness ==
    /\ f_call.fn = "World::is_shadowed"
    /\ f_call.result = FALSE
    /\ Abs(f_call.args[1].light.position - f_call.args[2])
           \in TowardsLight(f_call.args[1], f_call.args[2])
    /\ \E t \in TowardsLight(f_call.args[1], f_call.args[2]) :
           t > Abs(f_call.args[1].light.position - f_call.args[2])
    /\ LET r == RayNew(f_call.args[2],
                       IF f_call.args[1].light.position > f_call.args[2] THEN 1 ELSE -1)
       IN  \E o \in 1..Len(f_call.args[1].objects) :
               ObjectIntersect1(f_call.args[1].objects[o], r)[1][1] < 0

\* (n1 / n2)^2 * (1 - cos^2) > 1, exactly, for indices in tenths and a
\* cosine in hundredths.
Sin2TAboveOne(n1, n2, cos) ==
    n1 * n1 * (ColorScale * ColorScale - cos * cos) > n2 * n2 * ColorScale * ColorScale

\* C17: refracted_color returns black, without casting a refraction ray,
\* whenever (n1 / n2)^2 * (1 - cos_i^2) > 1 with cos_i = eyev . normalv,
\* also when the material is transparent and remaining > 0.
C17_BlackOnTotalInternalReflection ==
    f_call.fn = "World::refracted_color" =>
        LET n1 == f_call.args[3]
            n2 == f_call.args[4]
            cos_i == f_call.args[5]
        IN  Sin2TAboveOne(n1, n2, cos_i) => f_call.result = Some(BLACK)

\* The case of refracted_color_under_total_internal_reflection: from
\* inside glass (1.5 to 1.0) at cos_i = sqrt(2)/2, transparent, remaining 1.
C17_Witness ==
    /\ f_call.fn = "World::refracted_color"
    /\ f_call.args[1].transparency > 0
    /\ f_call.args[2] > 0
    /\ <<f_call.args[3], f_call.args[4], f_call.args[5]>> = <<15, 10, 71>>
    /\ Sin2TAboveOne(15, 10, 71)
    /\ f_call.result = Some(BLACK)

\* C18: shlick returns exactly 1.0 when n1 > n2 and
\* (n1 / n2)^2 * (1 - cos^2) > 1; otherwise r0 + (1 - r0) * (1 - c)^5 with
\* r0 = ((n1 - n2) / (n1 + n2))^2 and c = sqrt(1 - sin2_t) if n1 > n2,
\* else the incidence cosine.
C18_ShlickFormula ==
    f_call.fn = "Computation::shlick" =>
        LET n1 == f_call.args[1]
            n2 == f_call.args[2]
            cos == f_call.args[3]
            sin2_t == (n1 * n1 * (ColorScale - FMul(cos, cos))) \div (n2 * n2)
            c == IF n1 > n2 THEN ISqrt((ColorScale - sin2_t) * ColorScale) ELSE cos
            r0 == ((n1 - n2) * (n1 - n2) * ColorScale) \div ((n1 + n2) * (n1 + n2))
        IN  /\ f_call.result = IF n1 > n2 /\ Sin2TAboveOne(n1, n2, cos)
                               THEN ColorScale
                               ELSE r0 + FMul(ColorScale - r0, Pow5(ColorScale - c))
            \* schlick_approximation_under_total_internal_reflection
            /\ <<n1, n2, cos>> = <<15, 10, 71>> => f_call.result = ColorScale
            \* schlick_approximation_with_perpendicular_viewing_angle
            /\ <<n1, n2, cos>> = <<10, 15, ColorScale>> => f_call.result = 4

\* A call with n1 > n2 below total internal reflection, where the cosine
\* is replaced by sqrt(1 - sin2_t).
C18_Witness ==
    /\ f_call.fn = "Computation::shlick"
    /\ f_call.args[1] > f_call.args[2]
    /\ ~Sin2TAboveOne(f_call.args[1], f_call.args[2], f_call.args[3])
    /\ f_call.result > 0
    /\ f_call.result < ColorScale

\* The ambient term of lighting: base colour * intensity * ambient.
AmbientTerm(material, light) == FMul(FMul(material.color, light.intensity), material.ambient)

\* C19: lighting returns only the ambient term whenever in_shadow is true,
\* and whenever lightv . normalv < 0; and shade_hit of a non-reflective
\* opaque hit whose over_point is shadowed returns exactly the ambient
\* colour.
C19_AmbientOnlyInShadow ==
    /\ f_call.fn = "Material::lighting" =>
           LET material == f_call.args[1]
               light == f_call.args[2]
               point == f_call.args[3]
               normalv == f_call.args[5]
               in_shadow == f_call.args[6]
               lightv == Normalize1(light.position - point)
           IN  (in_shadow \/ lightv * normalv < 0) =>
                   f_call.result = AmbientTerm(material, light)
    /\ f_call.fn = "World::shade_hit of a hit" =>
           LET world == f_call.args[1]
               comps == HitComps(world, f_call.args[2])
               material == world.objects[comps.object].material
           IN  (/\ material.reflective = 0
                /\ material.transparency = 0
                /\ IsShadowed(world, comps.over_point)) =>
                   f_call.result = AmbientTerm(material, world.light)

\* shade_hit of a Matte hit that faces the light, with another object
\* between its over_point and the light, and remaining > 0.
C19_Witness ==
    /\ f_call.fn = "World::shade_hit of a hit"
    /\ f_call.args[3] > 0
    /\ LET world == f_call.args[1]
           comps == HitComps(world, f_call.args[2])
           material == world.objects[comps.object].material
       IN  /\ material.reflective = 0
           /\ material.transparency = 0
           /\ Normalize1(world.light.position - comps.point) * comps.normalv > 0
           /\ IsShadowed(world, comps.over_point)
           /\ f_call.result = AmbientTerm(material, world.light)
           /\ f_call.result > BLACK

\* C20: for every invertible 4x4 matrix M, M * M.inverse() is the identity
\* matrix, and M.inverse() is defined for every M whose determinant is not
\* zero.  Entries are exact rationals, so "within EPSILON" is equality.
C20_InverseIsRightInverse ==
    f_call.fn = "Matrice::inverse" =>
        LET m == f_call.args[1]
        IN  determinant(m) # RZero =>
                /\ f_call.result.inverse # Panic
                /\ f_call.result.inverse.size = 4
                /\ f_call.result.product = identity

\* A dense matrix without symmetry whose determinant is neither 0 nor 1.
C20_Witness ==
    /\ f_call.fn = "Matrice::inverse"
    /\ LET m == f_call.args[1]
       IN  /\ \A r \in 1..4, c \in 1..4 : element_at(m, r, c) # RZero
           /\ element_at(m, 1, 2) # element_at(m, 2, 1)
           /\ determinant(m) \notin {RZero, ROne}
           /\ f_call.result.inverse # Panic
           /\ f_call.result.inverse # transpose(f_call.result.inverse)
           /\ f_call.result.product = identity

\* What the claim has a colour component c emit: trunc(255 * c), limited to
\* [0, 255].
Emitted(c) ==
    LET v == IF c >= 0 THEN (255 * c) \div ColorScale ELSE -((255 * (-c)) \div ColorScale)
    IN  IF v < 0 THEN 0 ELSE IF v > 255 THEN 255 ELSE v

\* C21: to_ppm emits the header lines P3, "<width> <height>", 255, then
\* exactly width * height pixel triples in row-major order, row 0 first and
\* left to right; every channel is an integer in [0, 255], trunc(255 * c)
\* clamped, so components below 0 emit 0 and components above 1 emit 255.
C21_PpmHeaderAndClampedRows ==
    f_call.fn = "Canvas::to_ppm" =>
        LET canvas == f_call.args[1]
            out == f_call.result
        IN  /\ Len(out) = 3 + canvas.width * canvas.height
            /\ out[1] = <<"P3">>
            /\ out[2] = <<canvas.width, canvas.height>>
            /\ out[3] = <<255>>
            /\ \A y \in 0..(canvas.height - 1), x \in 0..(canvas.width - 1) :
                   LET line == out[3 + y * canvas.width + x + 1]
                       color == canvas.canvas[y][x]
                   IN  /\ line = <<Emitted(color[1]), Emitted(color[2]), Emitted(color[3])>>
                       /\ \A ch \in 1..3 :
                              /\ line[ch] \in 0..255
                              /\ color[ch] < 0 => line[ch] = 0
                              /\ color[ch] > ColorScale => line[ch] = 255

\* A canvas of two rows and two columns whose four pixels are not all the
\* same, with components below 0 and above 1.
C21_Witness ==
    /\ f_call.fn = "Canvas::to_ppm"
    /\ f_call.args[1].width = 2
    /\ f_call.args[1].height = 2
    /\ f_call.args[1].canvas[0][1] = <<-50, 0, 150>>
    /\ f_call.args[1].canvas[1][0] = <<50, ColorScale, 33>>
    /\ f_call.result[5] = <<0, 0, 255>>
    /\ f_call.result[6] = <<127, 255, 84>>

\* The point origin + direction * t of a ray in space.
PointAt(ray, t) ==
    <<RAdd(ray.origin[1], RMul(ray.direction[1], t)),
      RAdd(ray.origin[2], RMul(ray.direction[2], t)),
      RAdd(ray.origin[3], RMul(ray.direction[3], t))>>

\* The ray's line touches the unit sphere: the point of the line nearest to
\* the centre is at distance 1.
Tangent(ray) ==
    LET dd == Dot(ray.direction, ray.direction)
        od == Dot(ray.origin, ray.direction)
        oo == Dot(ray.origin, ray.origin)
    IN  RSub(RMul(oo, dd), RMul(od, od)) = dd

\* C22: for every ray, intersect on the unit sphere returns either no
\* intersection or exactly two parameters t0 <= t1, the same value twice
\* for a tangent ray; never one, never more than two.  The two parameters
\* are those of the points where the ray's line meets the sphere.
C22_SphereNoneOrTwoOrdered ==
    f_call.fn = "intersect_sphere" =>
        LET ray == f_call.args[1]
            xs == f_call.result
        IN  /\ xs = None \/ Len(xs[1]) = 2
            /\ xs # None =>
                   /\ ~RLess(xs[1][2], xs[1][1])
                   /\ \A k \in 1..Len(xs[1]) :
                          Dot(PointAt(ray, xs[1][k]), PointAt(ray, xs[1][k])) = ROne
            /\ Tangent(ray) => (xs # None /\ Len(xs[1]) = 2 /\ xs[1][1] = xs[1][2])

\* A tangent ray of length 2 whose point of contact is behind its origin.
C22_Witness ==
    /\ f_call.fn = "intersect_sphere"
    /\ Tangent(f_call.args[1])
    /\ f_call.args[1].direction = IntVector(0, 0, 2)
    /\ f_call.result = Some(<<RInt(-1), RInt(-1)>>)

VAdd(a, b) == <<RAdd(a[1], b[1]), RAdd(a[2], b[2]), RAdd(a[3], b[3])>>

VTimes(a, b) == <<RMul(a[1], b[1]), RMul(a[2], b[2]), RMul(a[3], b[3])>>

\* C23: a matrix times a Point takes the homogeneous coordinate 1, times a
\* Vector 0: Ray::transform by translation(x, y, z) moves the origin by
\* (x, y, z) and leaves the direction unchanged; by scaling(x, y, z) it
\* scales both the origin and the direction.
C23_TransformPointAndVector ==
    f_call.fn = "Ray::transform" =>
        LET ray == f_call.args[1]
            kind == f_call.args[2]
            xyz == f_call.args[3]
            r2 == f_call.result
        IN  /\ kind = "translation" =>
                   /\ r2.origin = VAdd(ray.origin, xyz)
                   /\ r2.direction = ray.direction
            /\ kind = "scaling" =>
                   /\ r2.origin = VTimes(ray.origin, xyz)
                   /\ r2.direction = VTimes(ray.direction, xyz)
            \* test_translating_ray
            /\ (/\ kind = "translation"
                /\ ray.origin = IntVector(1, 2, 3)
                /\ xyz = IntVector(3, 4, 5)) => r2.origin = IntVector(4, 6, 8)
            \* test_scaling_ray
            /\ (/\ kind = "scaling"
                /\ ray = [origin |-> IntVector(1, 2, 3), direction |-> IntVector(0, 1, 0)]
                /\ xyz = IntVector(2, 3, 4)) =>
                   r2 = [origin |-> IntVector(2, 6, 12), direction |-> IntVector(0, 3, 0)]

\* test_translating_ray: the origin has moved, the direction has not.
C23_Witness ==
    /\ f_call.fn = "Ray::transform"
    /\ f_call.args[2] = "translation"
    /\ f_call.args[1] = [origin |-> IntVector(1, 2, 3), direction |-> IntVector(0, 1, 0)]
    /\ f_call.args[3] = IntVector(3, 4, 5)
    /\ f_call.result = [origin |-> IntVector(4, 6, 8), direction |-> IntVector(0, 1, 0)]

\* y of the point of the ray at t.
YAt(ray, t) == RAdd(ray.origin[2], RMul(t, ray.direction[2]))

\* t is the parameter of a cap: the shape is closed and the point at t lies
\* in the plane of minimum or of maximum.
OnCapPlane(shape, ray, t) ==
    shape.closed /\ YAt(ray, t) \in {shape.minimum, shape.maximum}

\* C24 (as claimed): for every truncated Cylinder and Cone and every ray,
\* each lateral parameter t that intersect returns has
\* minimum < origin.y + t * direction.y < maximum, the single solution of a
\* ray parallel to a nappe of the cone included.
C24_LateralWithinBounds ==
    (f_call.fn = "Shape::intersect" /\ f_call.result # None) =>
        LET shape == f_call.args[1]
            ray == f_call.args[2]
            xs == f_call.result[1]
        IN  \A k \in 1..Len(xs) :
                \/ OnCapPlane(shape, ray, xs[k])
                \/ /\ RLess(shape.minimum, YAt(ray, xs[k]))
                   /\ RLess(YAt(ray, xs[k]), shape.maximum)

\* The part of C24 that the code meets: the lateral parameters of a
\* cylinder, and those of a cone that come from the quadratic.
C24_QuadraticLateralWithinBounds ==
    (f_call.fn = "Shape::intersect" /\ f_call.result # None) =>
        LET shape == f_call.args[1]
            ray == f_call.args[2]
            d == ray.direction
            xs == f_call.result[1]
            parallel == /\ shape.kind = "Cone"
                        /\ RAdd(RSub(Pow2R(d[1]), Pow2R(d[2])), Pow2R(d[3])) = RZero
        IN  ~parallel =>
                \A k \in 1..Len(xs) :
                    \/ OnCapPlane(shape, ray, xs[k])
                    \/ /\ RLess(shape.minimum, YAt(ray, xs[k]))
                       /\ RLess(YAt(ray, xs[k]), shape.maximum)

\* C25: every Computation built by Computation::new has
\* normalv . eyev >= 0: the normal is negated and inside is set exactly when
\* the object's normal at the hit point has a negative dot product with the
\* eye vector; over_point = point + normalv * EPSILON and under_point =
\* point - normalv * EPSILON use the normal after the flip, so over_point
\* lies on the eye's side of the surface and under_point on the far side.
C25_NormalFacesEye ==
    f_call.fn = "Computation::new" =>
        LET world == f_call.args[1]
            ray == f_call.args[2]
            comps == f_call.result
            normal == ObjectNormalAt1(world.objects[comps.object], comps.point)
        IN  /\ comps.eyev = -ray.direction
            /\ comps.normalv * comps.eyev >= 0
            /\ comps.inside = (normal * comps.eyev < 0)
            /\ comps.normalv = IF normal * comps.eyev < 0 THEN -normal ELSE normal
            /\ comps.over_point = comps.point + comps.normalv * EPSILON
            /\ comps.under_point = comps.point - comps.normalv * EPSILON
            /\ (comps.over_point - comps.point) * comps.eyev > 0
            /\ (comps.under_point - comps.point) * comps.eyev < 0

\* A hit from inside a sphere: the normal has been negated.
C25_Witness ==
    /\ f_call.fn = "Computation::new"
    /\ f_call.result.inside
    /\ f_call.result.t > 0
    /\ f_call.args[1].objects[f_call.result.object].shape = "Sphere"
    /\ f_call.result.normalv = f_call.result.eyev
    /\ f_call.result.over_point # f_call.result.under_point

\* floor(x) is even: x is n / d, or the whole number n * 2^e with e > 0.
FloorIsEven(x) == IF x.e > 0 THEN TRUE ELSE (x.n \div x.d) % 2 = 0

\* C26 (as claimed): for every pattern-space point the stripe pattern
\* returns its first colour iff floor(x) is even and its second colour iff
\* floor(x) is odd, for negative x and for x whose floor is outside the
\* range of i32 as well.
C26_StripeByFloorParity ==
    f_call.fn = "at_stripe" =>
        LET c1 == f_call.args[1]
            c2 == f_call.args[2]
            x == f_call.args[3]
        IN  /\ (f_call.result = c1) = FloorIsEven(x)
            /\ (f_call.result = c2) = ~FloorIsEven(x)

\* The part of C26 that the code meets: x whose floor i32 holds, the
\* negative ones included.
C26_StripeByFloorParityWithinI32 ==
    f_call.fn = "at_stripe" =>
        LET c1 == f_call.args[1]
            c2 == f_call.args[2]
            x == f_call.args[3]
        IN  (x.e = 0 \/ (x.e <= 30 /\ x.n \in {-1, 1}) \/ (x.e <= 29 /\ x.n \in -3..3)) =>
                /\ (f_call.result = c1) = FloorIsEven(x)
                /\ (f_call.result = c2) = ~FloorIsEven(x)

\* C28 (as claimed): if the target intersection does not occur in the list
\* passed to Computation::new, the empty list in particular, the
\* Computation has n1 = 1.0 and n2 = 1.0 whatever the refractive index of
\* the object, and every other field is as when the full list is passed.
C28_AbsentTargetGivesVacuum ==
    (f_call.fn = "Computation::new" /\ f_call.args[4] # "full") =>
        LET world == f_call.args[1]
            ray == f_call.args[2]
            j == f_call.args[3]
            xs == WorldIntersect(world, ray)[1]
            full == ComputationNew(world.objects, ray, j, xs[j], xs)
            comps == f_call.result
        IN  /\ comps.n1 = VACUUM
            /\ comps.n2 = VACUUM
            /\ [comps EXCEPT !.n1 = full.n1, !.n2 = full.n2] = full

\* The part of C28 that the code meets: lists that hold no intersection
\* equal to the target in t and in the fields of its object.
C28_NoEqualElementGivesVacuum ==
    (f_call.fn = "Computation::new" /\ f_call.args[4] # "full") =>
        LET world == f_call.args[1]
            ray == f_call.args[2]
            j == f_call.args[3]
            xs == WorldIntersect(world, ray)[1]
            list == PassedList(xs, j, f_call.args[4])
            full == ComputationNew(world.objects, ray, j, xs[j], xs)
            comps == f_call.result
        IN  /\ (\A h \in 1..Len(list) :
                    ~IntersectionEq(world.objects, 0, h, xs[j], list[h])) =>
                   (comps.n1 = VACUUM /\ comps.n2 = VACUUM)
            /\ [comps EXCEPT !.n1 = full.n1, !.n2 = full.n2] = full

\* The objects of world that ray intersects.
Intersected(world, ray) ==
    {n \in 1..Len(world.objects) : ObjectIntersect(world.objects[n], ray) # None}

\* C29: World::intersect returns None iff the ray intersects no object of
\* the world, and a list it returns is not empty; add_shape and add_shapes
\* only append to the object list: the objects already present keep their
\* order and position.
C29_NoneIffNothingIntersected ==
    /\ f_call.fn = "World::intersect in space" =>
           LET world == f_call.args[1]
               ray == f_call.args[2]
               xs == f_call.result
           IN  /\ (xs = None) = (Intersected(world, ray) = {})
               /\ xs # None =>
                      /\ Len(xs[1]) > 0
                      /\ {xs[1][j].object : j \in 1..Len(xs[1])} = Intersected(world, ray)
    /\ f_call.fn = "World::add_shapes" =>
           LET before == f_call.args[1].objects
               added == f_call.args[2]
               after == f_call.result.objects
           IN  /\ Len(after) = Len(before) + Len(added)
               /\ \A j \in 1..Len(before) : after[j] = before[j]
               /\ \A j \in 1..Len(added) : after[Len(before) + j] = added[j]
               /\ f_call.result.light = f_call.args[1].light

\* A world of two objects and a ray that passes both: None.
C29_Witness ==
    /\ f_call.fn = "World::intersect in space"
    /\ Len(f_call.args[1].objects) = 2
    /\ f_call.args[1].objects[1] # f_call.args[1].objects[2]
    /\ Intersected(f_call.args[1], f_call.args[2]) = {}
    /\ f_call.result = None

(***************************************************************************)
(* Specifications                                                          *)
(***************************************************************************)
\* Before Object::new.
InitObject == InitObjectIdle /\ InitWalkIdle /\ InitShadeIdle /\ InitRenderIdle /\ InitFnIdle

SpecObject == InitObject /\ [][NextObject]_vars

\* At the call Computation::new(ray, i, xs).
InitWalk == InitObjectIdle /\ InitWalkCall /\ InitShadeIdle /\ InitRenderIdle /\ InitFnIdle

SpecWalk == InitWalk /\ [][NextWalk]_vars

InitShade == InitObjectIdle /\ InitWalkIdle /\ InitShadeCall /\ InitRenderIdle /\ InitFnIdle

SpecShade == InitShade /\ [][NextShade]_vars

InitRender == InitObjectIdle /\ InitWalkIdle /\ InitShadeIdle /\ InitRenderCall /\ InitFnIdle

SpecRender == InitRender /\ [][NextRender]_vars

InitFn == InitObjectIdle /\ InitWalkIdle /\ InitShadeIdle /\ InitRenderIdle /\ InitFnIdle

SpecFn == InitFn /\ [][NextFn]_vars

=============================================================================
